---- MODULE Spec2Model ----
(***************************************************************************)
(* Model of the chunked tensor storage engine of Hub:                      *)
(*   hub/core/chunk_engine.py      ChunkEngine (append / extend / numpy)   *)
(*   hub/core/chunk.py             Chunk (data buffer + two header tables) *)
(*   hub/core/meta/encode/base_encoder.py   run-length Encoder             *)
(* ShapeEncoder, BytePositionsEncoder, ChunkIdEncoder, TensorMeta and the  *)
(* LRUCache are not part of the sources at hand; they are modelled from    *)
(* their description in spec.md (sections 4.1.1-4.1.3, 4.3, 4.4).          *)
(*                                                                         *)
(* One ChunkEngine over one tensor key is modelled.  The engine is a       *)
(* single-threaded program; its position is `pc`.  An append is cut into   *)
(* steps at the cache operations it issues (spec.md section 5 names them   *)
(* as the only suspension points), so that the intermediate states of an   *)
(* append are states of the model.                                         *)
(***************************************************************************)
EXTENDS Integers, Sequences, FiniteSets, TLC

\* ------------------------------------------------------------------ bounds
\* largest max_chunk_size an engine is constructed with
MaxChunkSizeBound == 4
\* appends are offered while tensor meta length is below this
MaxSamples == 3
\* number of chunk ids the pseudo-random source can produce
NumIds == 3
\* number of cache operations that may fail in one behaviour (SpecFail)
MaxFailures == 2
\* samples are registered in the lone encoder while it holds fewer than this
MaxEncoderSamples == 4

\* ------------------------------------------------------ program constants
\* ChunkEngine.__init__ rejects max_chunk_size <= 2
MinLegalMaxChunkSize == 3
\* the docstring example of ChunkEngine.__init__ (units of MB)
S3MaxChunkSize == 32

VARIABLES
    max_chunk_size,     \* ChunkEngine.max_chunk_size
    tensor_meta,        \* cache entry <tensor>/tensor_meta.json
    enc_exists,         \* <tensor>/chunk_id_encoder is a key of the cache
    chunk_id_encoder,   \* table of the ChunkIdEncoder: rows [val |-> id, last |-> LAST]
    chunks,             \* cache entries <tensor>/chunks/<name>: id -> Chunk
    pc,                 \* position of the engine inside append / extend / numpy
    mode,               \* the public call running: "none", "append", "uniform", "seq", "numpy"
    queue,              \* samples not yet stored / indices not yet read (head = current)
    new_chunk,          \* id of the chunk made by _create_new_chunk, 0 if none
    err,                \* exception that ended the last call, "none" if it returned
    out,                \* value returned by the last read (while it runs: read so far)
    appended,           \* history: samples whose _append_bytes ran to its end
    failures,           \* history: number of failed cache operations
    call,               \* history: the public call last made and the state it found
    chunk_obj,          \* a Chunk used through its own methods, outside an engine
    encoder_obj,        \* table of a ShapeEncoder used through the Encoder methods
    positions_obj,      \* table of a BytePositionsEncoder used the same way
    held,               \* id of the chunk object the engine holds for later use, 0 if none
    key,                \* ChunkEngine.key of the engine whose turn it is
    cache,              \* the cache shared by two engines, as of the last change of turn
    rest                \* the engine whose turn it is not: its position and what it left

vars == <<max_chunk_size, tensor_meta, enc_exists, chunk_id_encoder, chunks,
          pc, mode, queue, new_chunk, err, out, appended, failures, call,
          chunk_obj, encoder_obj, positions_obj, held, key, cache, rest>>

\* what belongs to the sharing of the cache by two engines
shared == <<key, cache, rest>>

\* the objects used apart from the engine
apart == <<chunk_obj, encoder_obj, positions_obj>>

\* ----------------------------------------------------------------- helpers
RECURSIVE Product(_)
Product(shape) ==
    IF shape = <<>> THEN 1 ELSE Head(shape) * Product(Tail(shape))

Min2(a, b) == IF a < b THEN a ELSE b
Max2(a, b) == IF a > b THEN a ELSE b

\* python slice seq[:n] for 0 <= n
Prefix(seq, n) == SubSeq(seq, 1, Min2(n, Len(seq)))

\* python slice seq[sb:eb] for 0 <= sb, 0 <= eb
Slice(seq, sb, eb) == SubSeq(seq, sb + 1, Min2(eb, Len(seq)))

\* math.ceil(size / chunk_max_data_bytes) for size >= 0
_min_chunk_ct_for_data_size(chunk_max_data_bytes, size) ==
    (size + chunk_max_data_bytes - 1) \div chunk_max_data_bytes

\* ChunkEngine.min_chunk_size
min_chunk_size == max_chunk_size \div 2

\* ------------------------------------------------- Encoder (base_encoder.py)
\* A table is a sequence of rows [val |-> payload columns, last |-> LAST column].
\* Rows are numbered from 1 here and from 0 in the source.

\* Encoder.num_samples
num_samples(encoded) ==
    IF Len(encoded) = 0 THEN 0 ELSE encoded[Len(encoded)].last + 1

\* a plausible slip: the samples of the rows above are not taken off
num_samples_at_from_zero(encoded, row_index) ==
    encoded[row_index].last + 1

\* Encoder.num_samples_at, row_index counted from 1
num_samples_at(encoded, row_index) ==
    LET lower_bound == IF Len(encoded) > 1 /\ row_index > 1
                       THEN encoded[row_index - 1].last + 1 ELSE 0
        upper_bound == encoded[row_index].last + 1
    IN  upper_bound - lower_bound

\* a plausible slip: bisection with side "right" (strict test turned non-strict)
RECURSIVE searchsorted_right(_, _, _, _)
searchsorted_right(encoded, v, lo, hi) ==
    IF lo >= hi THEN lo
    ELSE LET mid == (lo + hi) \div 2
         IN  IF encoded[mid + 1].last <= v
             THEN searchsorted_right(encoded, v, mid + 1, hi)
             ELSE searchsorted_right(encoded, v, lo, mid)

\* np.searchsorted(a, v) (side "left") by bisection over rows lo+1 .. hi
RECURSIVE searchsorted(_, _, _, _)
searchsorted(encoded, v, lo, hi) ==
    IF lo >= hi THEN lo
    ELSE LET mid == (lo + hi) \div 2
         IN  IF encoded[mid + 1].last < v
             THEN searchsorted(encoded, v, mid + 1, hi)
             ELSE searchsorted(encoded, v, lo, mid)

\* a plausible slip: np.searchsorted called with side="right"
translate_index_right(encoded, local_sample_index) ==
    LET i == IF local_sample_index < 0
             THEN local_sample_index + num_samples(encoded)
             ELSE local_sample_index
    IN  searchsorted_right(encoded, i, 0, Len(encoded)) + 1

\* Encoder.translate_index for a non-empty table: the row (from 1) holding the
\* sample, Len(encoded) + 1 when the index is past the last row
translate_index(encoded, local_sample_index) ==
    LET i == IF local_sample_index < 0
             THEN local_sample_index + num_samples(encoded)
             ELSE local_sample_index
    IN  searchsorted(encoded, i, 0, Len(encoded)) + 1

\* a plausible slip: the new row's LAST is computed as for the first row
register_samples_last_as_first(encoded, decomposable, combines, n) ==
    IF num_samples(encoded) # 0
    THEN IF combines
         THEN [encoded EXCEPT ![Len(encoded)].last = @ + n]
         ELSE Append(encoded, [val |-> decomposable,
                               last |-> encoded[Len(encoded)].last + n - 1])
    ELSE << [val |-> decomposable, last |-> n - 1] >>

\* a plausible slip: the combine branch is lost and every call appends a row
register_samples_never_combining(encoded, decomposable, combines, n) ==
    IF num_samples(encoded) # 0
    THEN Append(encoded, [val |-> decomposable,
                          last |-> encoded[Len(encoded)].last + n])
    ELSE << [val |-> decomposable, last |-> n - 1] >>

\* Encoder.register_samples; `combines` is _combine_condition(item) and
\* `decomposable` is _make_decomposable(item), both supplied by the subclass
register_samples(encoded, decomposable, combines, n) ==
    IF num_samples(encoded) # 0
    THEN IF combines
         THEN [encoded EXCEPT ![Len(encoded)].last = @ + n]
         ELSE Append(encoded, [val |-> decomposable,
                               last |-> encoded[Len(encoded)].last + n])
    ELSE << [val |-> decomposable, last |-> n - 1] >>

\* ----------------------------------------------- ShapeEncoder (spec 4.1.1)
\* ShapeEncoder._combine_condition: element-wise equality with the last row
shape_combine_condition(encoded, shape) ==
    encoded[Len(encoded)].val = shape

\* ShapeEncoder.add_shape
add_shape(encoded, shape, n) ==
    register_samples(encoded, shape,
                     Len(encoded) > 0 /\ shape_combine_condition(encoded, shape), n)

\* ShapeEncoder.__getitem__: the shape columns of the row holding the sample
shape_getitem(encoded, local_sample_index) ==
    encoded[translate_index(encoded, local_sample_index)].val

\* Encoder.__getitem__, lines 192-195: the exception it raises, "none" if it
\* returns.  translate_index raises on an empty table; self._encoded[row_index]
\* raises when the search ends past the last row
getitem_error(encoded, local_sample_index) ==
    IF num_samples(encoded) = 0 THEN "IndexError"
    ELSE IF translate_index(encoded, local_sample_index) > Len(encoded)
    THEN "IndexError"
    ELSE "none"

\* ---------------------------------------- BytePositionsEncoder (spec 4.1.2)
\* payload columns: <<nbytes_per_sample, start_byte>>

\* BytePositionsEncoder.num_bytes_encoded_under_row, row counted from 1
num_bytes_encoded_under_row(encoded, row_index) ==
    IF Len(encoded) = 0 THEN 0
    ELSE encoded[row_index].val[2]
         + encoded[row_index].val[1] * num_samples_at(encoded, row_index)

\* BytePositionsEncoder._combine_condition: equal nbytes_per_sample
byte_positions_combine_condition(encoded, nbytes) ==
    encoded[Len(encoded)].val[1] = nbytes

\* BytePositionsEncoder.add_byte_position: a new row starts at the end byte of
\* the previous row
add_byte_position(encoded, nbytes, n) ==
    register_samples(encoded,
                     <<nbytes, num_bytes_encoded_under_row(encoded, Len(encoded))>>,
                     Len(encoded) > 0 /\ byte_positions_combine_condition(encoded, nbytes),
                     n)

\* BytePositionsEncoder.__getitem__ (_derive_value): <<start_byte, end_byte>>
byte_positions_getitem(encoded, local_sample_index) ==
    LET row_index == translate_index(encoded, local_sample_index)
        row == encoded[row_index]
        prev_last == IF row_index = 1 THEN -1 ELSE encoded[row_index - 1].last
        start == row.val[2] + (local_sample_index - prev_last - 1) * row.val[1]
    IN  <<start, start + row.val[1]>>

\* ------------------------------------- Encoder.__setitem__ (base_encoder.py)
\* `kind` names the subclass whose _combine_condition applies: "shape" or
\* "byte_positions".

\* _combine_condition(item, compare_row_index), row counted from 1
combine_condition(kind, encoded, item, row_index) ==
    IF kind = "shape"
    THEN encoded[row_index].val = item
    ELSE encoded[row_index].val[1] = item

\* the row index __setitem__ works on
setitem_row(encoded, local_sample_index) ==
    translate_index(encoded, local_sample_index)

\* _setup_update
has_above(encoded, row_index) == row_index > 1
has_below(encoded, row_index) == row_index + 1 <= Len(encoded)

can_combine_above(kind, encoded, item, row_index) ==
    /\ has_above(encoded, row_index)
    /\ combine_condition(kind, encoded, item, row_index - 1)

can_combine_below(kind, encoded, item, row_index) ==
    /\ has_below(encoded, row_index)
    /\ combine_condition(kind, encoded, item, row_index + 1)

\* a plausible slip: _try_not_changing is missing from the tuple of actions
setitem_action_without_no_change(kind, encoded, local_sample_index, item) ==
    LET r == setitem_row(encoded, local_sample_index)
        above == can_combine_above(kind, encoded, item, r)
        below == can_combine_below(kind, encoded, item, r)
    IN  IF has_above(encoded, r) /\ has_below(encoded, r) /\ above /\ below
        THEN "squeeze"
        ELSE IF ~below /\ above THEN "move_up"
        ELSE IF ~above /\ below THEN "move_down"
        ELSE IF num_samples_at(encoded, r) = 1 THEN "replace"
        ELSE "not_implemented"

\* the first action of __setitem__ that returns True, "not_implemented" when
\* the loop reaches one of the three split actions, which all raise
setitem_action(kind, encoded, local_sample_index, item) ==
    LET r == setitem_row(encoded, local_sample_index)
        above == can_combine_above(kind, encoded, item, r)
        below == can_combine_below(kind, encoded, item, r)
    IN  IF combine_condition(kind, encoded, item, r) THEN "no_change"
        ELSE IF has_above(encoded, r) /\ has_below(encoded, r) /\ above /\ below
        THEN "squeeze"
        ELSE IF ~below /\ above THEN "move_up"
        ELSE IF ~above /\ below THEN "move_down"
        ELSE IF num_samples_at(encoded, r) = 1 THEN "replace"
        ELSE "not_implemented"

\* ENCODING_DTYPE is uint32 (spec 6.4): 0 - 1 wraps to 2^32 - 1.  That value is
\* past the integers TLC computes with; the table keeps 2^30 - 1 in its place,
\* which like it lies above every index a table of the model holds.
WrappedMinusOne == 2^30 - 1

\* x -= 1 on an element of the table
uint_decrement(x) == IF x = 0 THEN WrappedMinusOne ELSE x - 1

\* _try_replacing, line 309: the payload columns are assigned `item`; a scalar
\* is broadcast over the columns
replaced_payload(kind, item) ==
    IF kind = "shape" THEN item ELSE <<item, item>>

\* the table Encoder.__setitem__ leaves behind (unchanged when it raises)
setitem(kind, encoded, local_sample_index, item) ==
    LET r == setitem_row(encoded, local_sample_index)
        action == setitem_action(kind, encoded, local_sample_index, item)
    IN  CASE action = "squeeze" ->
                SubSeq(encoded, 1, r - 2) \o SubSeq(encoded, r + 1, Len(encoded))
          [] action = "move_up" ->
                [encoded EXCEPT ![r - 1].last = @ + 1]
          [] action = "move_down" ->
                [encoded EXCEPT ![r].last = uint_decrement(@)]
          [] action = "replace" ->
                [encoded EXCEPT ![r].val = replaced_payload(kind, item)]
          [] OTHER -> encoded

\* BytePositionsEncoder.update_num_bytes: the sample's byte count is set
\* through __setitem__
update_num_bytes(encoded, local_sample_index, new_num_bytes) ==
    setitem("byte_positions", encoded, local_sample_index, new_num_bytes)

\* ------------------------------------------------ ChunkIdEncoder (spec 4.1.3)
\* payload column: the chunk id.  A row made by generate_chunk_id covers no
\* sample until register_samples_to_last_chunk_id extends it; the LAST of such
\* a first row is num_samples - 1 = -1.

\* ChunkIdEncoder.num_chunks
num_chunks(encoded) == Len(encoded)

\* ChunkIdEncoder.generate_chunk_id, `id` being the value drawn
generate_chunk_id(encoded, id) ==
    Append(encoded, [val |-> id, last |-> num_samples(encoded) - 1])

\* ChunkIdEncoder.register_samples_to_last_chunk_id (needs a last row)
register_samples_to_last_chunk_id(encoded, n) ==
    [encoded EXCEPT ![Len(encoded)].last = @ + n]

\* ChunkIdEncoder.__getitem__: the id of the chunk holding a global index
chunk_id_getitem(encoded, global_sample_index) ==
    encoded[translate_index(encoded, global_sample_index)].val

\* ChunkIdEncoder.get_local_sample_index
get_local_sample_index(encoded, global_sample_index) ==
    LET row_index == translate_index(encoded, global_sample_index)
    IN  IF row_index = 1 THEN global_sample_index
        ELSE global_sample_index - (encoded[row_index - 1].last + 1)

\* ids held by the rows of the table
UsedIds(encoded) == { encoded[r].val : r \in 1..Len(encoded) }

\* the values the pseudo-random source can produce
Ids == 1..NumIds

\* the ids generate_chunk_id may return: no row holds them (a collision is
\* drawn again); the smallest and the largest free value stand for the draw
FreshIds(encoded) ==
    LET free == Ids \ UsedIds(encoded)
    IN  { id \in free : (\A o \in free : id <= o) \/ (\A o \in free : id >= o) }

\* ------------------------------------------------------ TensorMeta (spec 4.3)
\* TensorMeta.check_compatibility: TRUE when the sample is accepted
check_compatibility(meta, shape, dtype) ==
    /\ dtype = meta.dtype
    /\ meta.length > 0 => Len(shape) = Len(meta.min_shape)

\* TensorMeta.update
meta_update(meta, shape, dtype, n) ==
    IF meta.length = 0
    THEN [meta EXCEPT !.length = n, !.min_shape = shape, !.max_shape = shape]
    ELSE [meta EXCEPT
            !.length = @ + n,
            !.min_shape = [i \in 1..Len(shape) |-> Min2(meta.min_shape[i], shape[i])],
            !.max_shape = [i \in 1..Len(shape) |-> Max2(meta.max_shape[i], shape[i])]]

\* ------------------------------------------------------------ Chunk (chunk.py)
\* Chunk.__init__ with no arguments
EmptyChunk == [shapes_encoder |-> <<>>, byte_positions_encoder |-> <<>>, data |-> <<>>]

\* a plausible slip: the length of the header table instead of the data
num_data_bytes_header_rows(chunk) == Len(chunk.shapes_encoder)

\* Chunk.num_data_bytes
num_data_bytes(chunk) == Len(chunk.data)

\* a plausible slip: a chunk of exactly the target still counts as under it
is_under_min_space_inclusive(chunk, min_data_bytes_target) ==
    num_data_bytes(chunk) <= min_data_bytes_target

\* Chunk.is_under_min_space
is_under_min_space(chunk, min_data_bytes_target) ==
    num_data_bytes(chunk) < min_data_bytes_target

\* a plausible slip: a buffer that fills the chunk exactly is refused
has_space_for_strict(chunk, num_bytes, max_data_bytes) ==
    num_data_bytes(chunk) + num_bytes < max_data_bytes

\* Chunk.has_space_for
has_space_for(chunk, num_bytes, max_data_bytes) ==
    num_data_bytes(chunk) + num_bytes <= max_data_bytes

\* a plausible slip: the byte count registered is that of the whole data
register_sample_to_headers_all_data(chunk, incoming_num_bytes, sample_shape) ==
    [chunk EXCEPT
        !.shapes_encoder = add_shape(@, sample_shape, 1),
        !.byte_positions_encoder = add_byte_position(@, Len(chunk.data), 1)]

\* Chunk.register_sample_to_headers
register_sample_to_headers(chunk, incoming_num_bytes, sample_shape) ==
    [chunk EXCEPT
        !.shapes_encoder = add_shape(@, sample_shape, 1),
        !.byte_positions_encoder = add_byte_position(@, incoming_num_bytes, 1)]

\* a plausible slip: the bytes are stored and the headers are left alone
append_sample_data_only(chunk, buffer, shape) ==
    [chunk EXCEPT !.data = @ \o buffer]

\* Chunk.append_sample once has_space_for has passed
append_sample(chunk, buffer, shape) ==
    register_sample_to_headers([chunk EXCEPT !.data = @ \o buffer], Len(buffer), shape)

\* number of samples a chunk's header registers
ChunkSamples(chunk) == num_samples(chunk.byte_positions_encoder)

\* Chunk.update_sample, lines 125-141: the exception it raises, "none" if it
\* returns; line 149 raises when __setitem__ reaches a split action
update_sample_error(chunk, local_sample_index, buffer, shape) ==
    LET expected_shape == shape_getitem(chunk.shapes_encoder, local_sample_index)
        pos == byte_positions_getitem(chunk.byte_positions_encoder, local_sample_index)
    IN  IF expected_shape # shape THEN "NotSupported"
        ELSE IF pos[2] - pos[1] # Len(buffer) THEN "NotSupported"
        ELSE IF setitem_action("byte_positions", chunk.byte_positions_encoder,
                               local_sample_index, Len(buffer)) = "not_implemented"
        THEN "NotSupported"
        ELSE "none"

\* a plausible slip: the new bytes are put in front of the old ones, which stay
spliced_keeping_old(data, sb, eb, buffer) ==
    Prefix(data, sb) \o buffer \o SubSeq(data, sb + 1, Len(data))

\* Chunk.update_sample, lines 145-147: left + buffer + right
spliced(data, sb, eb, buffer) ==
    Prefix(data, sb) \o buffer \o SubSeq(data, eb + 1, Len(data))

\* a plausible slip: the data is written ahead of the byte count check
update_sample_write_first(chunk, local_sample_index, buffer, shape) ==
    LET expected_shape == shape_getitem(chunk.shapes_encoder, local_sample_index)
        pos == byte_positions_getitem(chunk.byte_positions_encoder, local_sample_index)
    IN  IF expected_shape # shape
        THEN chunk
        ELSE [chunk EXCEPT !.data = spliced(@, pos[1], pos[2], buffer)]

\* Chunk.update_sample: the chunk it leaves behind.  The two checks raise
\* before anything is written; the data is written before update_num_bytes
update_sample(chunk, local_sample_index, buffer, shape) ==
    LET expected_shape == shape_getitem(chunk.shapes_encoder, local_sample_index)
        pos == byte_positions_getitem(chunk.byte_positions_encoder, local_sample_index)
    IN  IF expected_shape # shape \/ pos[2] - pos[1] # Len(buffer)
        THEN chunk
        ELSE [chunk EXCEPT
                !.data = spliced(@, pos[1], pos[2], buffer),
                !.byte_positions_encoder =
                    update_num_bytes(@, local_sample_index, Len(buffer))]

\* ------------------------------------------- chunk serialization (spec 6.1)
\* hub.__version__ as utf8 bytes ("2.0")
Version == <<50, 46, 48>>

\* n as `width` little-endian bytes
RECURSIVE le_bytes(_, _)
le_bytes(n, width) ==
    IF width = 0 THEN <<>> ELSE <<n % 256>> \o le_bytes(n \div 256, width - 1)

\* the number a little-endian byte string holds
RECURSIVE from_le(_)
from_le(bytes) ==
    IF bytes = <<>> THEN 0 ELSE Head(bytes) + 256 * from_le(Tail(bytes))

\* a section: a uint64 byte count, then the bytes
section(bytes) == le_bytes(Len(bytes), 8) \o bytes

\* the cells of one row: payload columns, then LAST
row_cells(row) == Append(row.val, row.last)

\* the cells as uint32, one after the other
RECURSIVE cells_tobytes(_)
cells_tobytes(cells) ==
    IF cells = <<>> THEN <<>>
    ELSE le_bytes(Head(cells), 4) \o cells_tobytes(Tail(cells))

\* the rows of a table in row-major order
RECURSIVE rows_tobytes(_)
rows_tobytes(encoded) ==
    IF encoded = <<>> THEN <<>>
    ELSE cells_tobytes(row_cells(Head(encoded))) \o rows_tobytes(Tail(encoded))

\* an encoder table: uint32 rows, uint32 cols, then the cells
table_tobytes(encoded) ==
    LET rows == Len(encoded)
        cols == IF rows = 0 THEN 0 ELSE Len(row_cells(encoded[1]))
    IN  le_bytes(rows, 4) \o le_bytes(cols, 4) \o rows_tobytes(encoded)

\* the table a byte string made by table_tobytes holds
table_frombytes(bytes) ==
    LET rows == from_le(SubSeq(bytes, 1, 4))
        cols == from_le(SubSeq(bytes, 5, 8))
        cell(r, c) == from_le(SubSeq(bytes, 8 + 4 * ((r - 1) * cols + c - 1) + 1,
                                            8 + 4 * ((r - 1) * cols + c)))
    IN  [r \in 1..rows |->
            [val |-> [c \in 1..(cols - 1) |-> cell(r, c)], last |-> cell(r, cols)]]

\* serialize_chunk(version, shapes, byte_positions, [data])
serialize_chunk(version, shapes, byte_positions, data) ==
    section(version) \o section(table_tobytes(shapes))
        \o section(table_tobytes(byte_positions)) \o data

\* deserialize_chunk(buffer): version, shapes, byte positions, data
deserialize_chunk(buffer) ==
    LET n1 == from_le(SubSeq(buffer, 1, 8))
        e1 == 8 + n1
        n2 == from_le(SubSeq(buffer, e1 + 1, e1 + 8))
        e2 == e1 + 8 + n2
        n3 == from_le(SubSeq(buffer, e2 + 1, e2 + 8))
        e3 == e2 + 8 + n3
    IN  [version |-> SubSeq(buffer, 9, e1),
         shapes |-> table_frombytes(SubSeq(buffer, e1 + 9, e2)),
         byte_positions |-> table_frombytes(SubSeq(buffer, e2 + 9, e3)),
         data |-> SubSeq(buffer, e3 + 1, Len(buffer))]

\* Chunk.tobytes
tobytes(chunk) ==
    serialize_chunk(Version, chunk.shapes_encoder, chunk.byte_positions_encoder,
                    chunk.data)

\* a plausible slip: the two tables are handed to Chunk() in the wrong order
frombuffer_tables_swapped(buffer) ==
    IF buffer = <<>> THEN EmptyChunk
    ELSE LET parts == deserialize_chunk(buffer)
         IN  [shapes_encoder |-> parts.byte_positions,
              byte_positions_encoder |-> parts.shapes,
              data |-> parts.data]

\* Chunk.frombuffer: an empty buffer gives Chunk(); `data or bytearray()` of
\* __init__ turns an empty memoryview into an empty bytearray
frombuffer(buffer) ==
    IF buffer = <<>> THEN EmptyChunk
    ELSE LET parts == deserialize_chunk(buffer)
         IN  [shapes_encoder |-> parts.shapes,
              byte_positions_encoder |-> parts.byte_positions,
              data |-> parts.data]

\* ------------------------------------------------------- keys (spec 6.2)
\* A key is <<tensor, entry, chunk name>>; the name is <<>> for the two
\* entries a tensor has once.

\* the tensor keys of the two engines
TensorKeys == {"a", "b"}

\* get_tensor_meta_key: <tensor>/tensor_meta.json
get_tensor_meta_key(tensor) == <<tensor, "tensor_meta.json", <<>> >>

\* get_chunk_id_encoder_key: <tensor>/chunk_id_encoder
get_chunk_id_encoder_key(tensor) == <<tensor, "chunk_id_encoder", <<>> >>

\* get_chunk_key: <tensor>/chunks/<name>
get_chunk_key(tensor, chunk_name) == <<tensor, "chunks", chunk_name>>

\* ChunkIdEncoder.name_from_id: the id as hex digits, of a fixed length
name_from_id(id) == <<(id \div 16) % 16, id % 16>>

\* a plausible slip: the chunk key is built from the chunk name alone
engine_chunk_key_without_tensor(tensor, chunk_id) ==
    get_chunk_key("", name_from_id(chunk_id))

\* lines 259-260 and 332-333 of chunk_engine.py: the key of a chunk of the
\* engine's tensor
engine_chunk_key(tensor, chunk_id) ==
    get_chunk_key(tensor, name_from_id(chunk_id))

\* ------------------------------------------------------------------ inputs
\* A sample is [buffer, shape, dtype]: the bytes handed to _append_bytes (for an
\* uncompressed tensor the array's raw bytes, one byte per element), its shape
\* and its dtype.
DTypes == {"uint8", "int8"}

\* shapes offered: every length the engine accepts (0..min_chunk_size), one it
\* rejects, and one shape of another rank
Shapes == { <<n>> : n \in 0..(min_chunk_size + 1) } \cup { <<1, 1>> }

\* first byte of the byte strings offered
Fills == {0, 1}

\* the byte strings offered for a shape: one per fill, of the right length
Buffers(shape) ==
    { [i \in 1..Product(shape) |-> (f + i) % 256] : f \in Fills }

GoodDTypeSamples ==
    UNION { { [buffer |-> b, shape |-> sh, dtype |-> "uint8"] : b \in Buffers(sh) } :
            sh \in Shapes }

\* one sample of a dtype that is not the tensor's
WrongDTypeSample == [buffer |-> <<7>>, shape |-> <<1>>, dtype |-> "int8"]

Inputs == GoodDTypeSamples \cup {WrongDTypeSample}

\* batches handed to extend: lists of at most two samples
Batches ==
    {<<>>} \cup { <<a>> : a \in Inputs } \cup { <<a, b>> : a \in Inputs, b \in Inputs }

\* is_uniform_sequence for a list of arrays: one type, one shape
is_uniform_sequence(samples) ==
    /\ Len(samples) > 0
    /\ \A i \in 1..Len(samples) : samples[i].shape = samples[1].shape

NoOut == [kind |-> "none", samples |-> <<>>]

\* the record kept of a public call: its name, its arguments, and the tensor
\* meta, chunk id encoder and chunks as the call found them
Called(name, samples, indices, aslist) ==
    [name |-> name, samples |-> samples, indices |-> indices, aslist |-> aslist,
     tensor_meta |-> tensor_meta, enc_exists |-> enc_exists,
     chunk_id_encoder |-> chunk_id_encoder, chunks |-> chunks,
     appended |-> appended]

\* -------------------------------------------------------------------- Init
InitMeta ==
    [dtype |-> "uint8", sample_compression |-> "uncompressed",
     length |-> 0, min_shape |-> <<>>, max_shape |-> <<>>]

InitEngine ==
    /\ tensor_meta = InitMeta
    /\ enc_exists = FALSE
    /\ chunk_id_encoder = <<>>
    /\ chunks = <<>>
    /\ pc = "idle"
    /\ mode = "none"
    /\ queue = <<>>
    /\ new_chunk = 0
    /\ err = "none"
    /\ out = NoOut
    /\ appended = <<>>
    /\ failures = 0
    /\ call = Called("none", <<>>, <<>>, FALSE)
    /\ chunk_obj = EmptyChunk
    /\ encoder_obj = <<>>
    /\ positions_obj = <<>>
    /\ held = 0
    /\ key = "a"
    /\ cache = [k \in { get_tensor_meta_key(t) : t \in TensorKeys } |-> InitMeta]
    /\ rest = [key |-> "b", pc |-> "idle", mode |-> "none", queue |-> <<>>,
               new_chunk |-> 0, err |-> "none", out |-> NoOut, appended |-> <<>>,
               held |-> 0, tensor_meta |-> InitMeta, enc_exists |-> FALSE,
               chunk_id_encoder |-> <<>>, chunks |-> <<>>]

\* ChunkEngine.__init__: max_chunk_size > 2
Init ==
    /\ max_chunk_size \in MinLegalMaxChunkSize..MaxChunkSizeBound
    /\ InitEngine

\* --------------------------------------------------------- engine: helpers
\* an exception leaves the running call
Raise(e) ==
    /\ pc' = "idle"
    /\ err' = e
    /\ mode' = "none"
    /\ queue' = <<>>
    /\ new_chunk' = 0

\* the sample _append_bytes is working on
cur == Head(queue)

\* ChunkEngine.num_chunks
engine_num_chunks == IF enc_exists THEN num_chunks(chunk_id_encoder) ELSE 0

\* ChunkEngine.num_samples
engine_num_samples == IF enc_exists THEN num_samples(chunk_id_encoder) ELSE 0

\* id of the chunk ChunkEngine.last_chunk resolves (get_name_for_chunk(-1))
last_chunk_id == chunk_id_encoder[Len(chunk_id_encoder)].val

\* a plausible slip: the length that is still accepted is taken to be 0
chunk_id_encoder_corrupted_from_one ==
    ~enc_exists /\ tensor_meta.length > 0

\* the chunk_id_encoder property, lines 131-137: the key is absent although
\* the tensor holds more than the one sample whose write may be under way
chunk_id_encoder_corrupted ==
    ~enc_exists /\ tensor_meta.length > 1

\* a plausible slip: a sample of exactly the minimum chunk size is refused
sample_too_large_inclusive(num_bytes) == num_bytes >= min_chunk_size

\* ChunkEngine._check_sample_size: TRUE when it raises
sample_too_large(num_bytes) == num_bytes > min_chunk_size

\* a plausible slip: the test of is_under_min_space negated
combines_with_last_chunk_negated(last_chunk, incoming_num_bytes) ==
    /\ ~is_under_min_space(last_chunk, min_chunk_size)
    /\ _min_chunk_ct_for_data_size(max_chunk_size,
                                   incoming_num_bytes + num_data_bytes(last_chunk))
         = _min_chunk_ct_for_data_size(max_chunk_size, incoming_num_bytes)

\* lines 221-233 of _try_appending_to_last_chunk: the last chunk takes the buffer
combines_with_last_chunk(last_chunk, incoming_num_bytes) ==
    /\ is_under_min_space(last_chunk, min_chunk_size)
    /\ _min_chunk_ct_for_data_size(max_chunk_size,
                                   incoming_num_bytes + num_data_bytes(last_chunk))
         = _min_chunk_ct_for_data_size(max_chunk_size, incoming_num_bytes)

\* a plausible slip: the room left is taken against the minimum chunk size
extra_bytes_to_min(last_chunk, incoming_num_bytes) ==
    Min2(incoming_num_bytes, min_chunk_size - num_data_bytes(last_chunk))

\* line 227 of _try_appending_to_last_chunk
extra_bytes(last_chunk, incoming_num_bytes) ==
    Min2(incoming_num_bytes, max_chunk_size - num_data_bytes(last_chunk))

\* ------------------------------------------------------------ public calls
\* ChunkEngine.append(sample)
CallAppend(smp) ==
    /\ mode' = "append"
    /\ queue' = <<smp>>
    /\ pc' = "check_size"
    /\ err' = "none"
    /\ out' = NoOut
    /\ call' = Called("append", <<smp>>, <<>>, FALSE)
    /\ UNCHANGED <<max_chunk_size, shared, held, apart, tensor_meta, enc_exists, chunk_id_encoder,
                   chunks, new_chunk, appended, failures>>

\* ChunkEngine.extend(samples) for a list: a uniform list is turned into one
\* array and every buffer is appended with the last sample's shape and dtype
\* (lines 273-279); any other list is appended sample by sample (lines 298-299)
CallExtend(samples) ==
    /\ IF is_uniform_sequence(samples)
       THEN /\ mode' = "uniform"
            /\ queue' = [i \in 1..Len(samples) |->
                            [buffer |-> samples[i].buffer,
                             shape |-> samples[Len(samples)].shape,
                             dtype |-> samples[Len(samples)].dtype]]
            /\ pc' = "precheck"
       ELSE /\ mode' = "seq"
            /\ queue' = samples
            /\ pc' = IF samples = <<>> THEN "flush_batch" ELSE "check_size"
    /\ err' = "none"
    /\ out' = NoOut
    /\ call' = Called("extend", samples, <<>>, FALSE)
    /\ UNCHANGED <<max_chunk_size, shared, held, apart, tensor_meta, enc_exists, chunk_id_encoder,
                   chunks, new_chunk, appended, failures>>

append ==
    /\ pc = "idle"
    /\ tensor_meta.length < MaxSamples
    /\ \E smp \in Inputs : CallAppend(smp)

\* a numpy array has one dtype, so a uniform batch has one
extend ==
    /\ pc = "idle"
    /\ \E samples \in Batches :
        /\ tensor_meta.length + Len(samples) <= MaxSamples
        /\ is_uniform_sequence(samples) =>
              \A i \in 1..Len(samples) : samples[i].dtype = samples[1].dtype
        /\ CallExtend(samples)

\* ------------------------------------------------- steps of append / extend
\* append, lines 311-313: _check_sample_size of the current sample
CheckSampleSize ==
    /\ pc = "check_size"
    /\ IF sample_too_large(Len(cur.buffer))
       THEN Raise("NotSupported")
       ELSE /\ pc' = "check"
            /\ UNCHANGED <<err, mode, queue, new_chunk>>
    /\ UNCHANGED <<max_chunk_size, shared, held, apart, call, tensor_meta, enc_exists, chunk_id_encoder,
                   chunks, out, appended, failures>>

\* extend, lines 273-276: every size is checked before any data is added
PreCheck ==
    /\ pc = "precheck"
    /\ IF \E i \in 1..Len(queue) : sample_too_large(Len(queue[i].buffer))
       THEN Raise("NotSupported")
       ELSE /\ pc' = "check"
            /\ UNCHANGED <<err, mode, queue, new_chunk>>
    /\ UNCHANGED <<max_chunk_size, shared, held, apart, call, tensor_meta, enc_exists, chunk_id_encoder,
                   chunks, out, appended, failures>>

\* _append_bytes, line 192
CheckCompatibility ==
    /\ pc = "check"
    /\ IF check_compatibility(tensor_meta, cur.shape, cur.dtype)
       THEN /\ pc' = "update"
            /\ UNCHANGED <<err, mode, queue, new_chunk>>
       ELSE Raise("TensorMetaMismatch")
    /\ UNCHANGED <<max_chunk_size, shared, held, apart, call, tensor_meta, enc_exists, chunk_id_encoder,
                   chunks, out, appended, failures>>

\* a plausible slip: the meta update is left out ahead of the write
MetaUpdateSkipped ==
    /\ pc = "update"
    /\ pc' = "try"
    /\ UNCHANGED <<max_chunk_size, shared, held, apart, call, tensor_meta, enc_exists,
                   chunk_id_encoder, chunks,
                   mode, queue, new_chunk, err, out, appended, failures>>

\* _append_bytes, line 193
MetaUpdate ==
    /\ pc = "update"
    /\ tensor_meta' = meta_update(tensor_meta, cur.shape, cur.dtype, 1)
    /\ pc' = "try"
    /\ UNCHANGED <<max_chunk_size, shared, held, apart, call, enc_exists, chunk_id_encoder, chunks, mode,
                   queue, new_chunk, err, out, appended, failures>>

\* _append_bytes, line 195: _try_appending_to_last_chunk
TryAppendingToLastChunk ==
    /\ pc = "try"
    /\ IF engine_num_chunks = 0
       THEN /\ pc' = "create"
            /\ UNCHANGED <<chunks, err, mode, queue, new_chunk>>
       ELSE IF last_chunk_id \notin DOMAIN chunks
       THEN Raise("KeyError") /\ UNCHANGED chunks
       ELSE LET last_chunk == chunks[last_chunk_id]
                incoming_num_bytes == Len(cur.buffer)
                part == Prefix(cur.buffer, extra_bytes(last_chunk, incoming_num_bytes))
            IN  IF combines_with_last_chunk(last_chunk, incoming_num_bytes)
                THEN IF has_space_for(last_chunk, Len(part), max_chunk_size)
                     THEN /\ chunks' = [chunks EXCEPT ![last_chunk_id] =
                                            append_sample(last_chunk, part, cur.shape)]
                          /\ pc' = "register"
                          /\ UNCHANGED <<err, mode, queue, new_chunk>>
                     ELSE Raise("FullChunk") /\ UNCHANGED chunks
                ELSE /\ pc' = "create"
                     /\ UNCHANGED <<chunks, err, mode, queue, new_chunk>>
    /\ UNCHANGED <<max_chunk_size, shared, held, apart, call, tensor_meta, enc_exists, chunk_id_encoder,
                   out, appended, failures>>

\* _create_new_chunk, line 257: the chunk_id_encoder property (lines 131-145)
\* makes a blank encoder when the key is absent, then generate_chunk_id draws
\* an id no row holds
CreateNewChunk ==
    /\ pc = "create"
    /\ IF chunk_id_encoder_corrupted
       THEN Raise("CorruptedMeta") /\ UNCHANGED <<enc_exists, chunk_id_encoder>>
       ELSE \E id \in FreshIds(chunk_id_encoder) :
               /\ enc_exists' = TRUE
               /\ chunk_id_encoder' = generate_chunk_id(chunk_id_encoder, id)
               /\ new_chunk' = id
               /\ pc' = "insert"
               /\ UNCHANGED <<err, mode, queue>>
    /\ UNCHANGED <<max_chunk_size, shared, held, apart, call, tensor_meta, chunks, out, appended,
                   failures>>

\* _create_new_chunk, lines 258-261: the blank chunk goes into the cache and
\* is returned to _append_to_new_chunk
InsertNewChunk ==
    /\ pc = "insert"
    /\ chunks' = (new_chunk :> EmptyChunk) @@ chunks
    /\ held' = new_chunk
    /\ pc' = "append_new"
    /\ UNCHANGED <<max_chunk_size, shared, apart, call, tensor_meta, enc_exists,
                   chunk_id_encoder, mode,
                   queue, new_chunk, err, out, appended, failures>>

\* _append_to_new_chunk, line 252: the last use of the chunk object
AppendToNewChunk ==
    /\ pc = "append_new"
    /\ IF has_space_for(chunks[new_chunk], Len(cur.buffer), max_chunk_size)
       THEN /\ chunks' = [chunks EXCEPT ![new_chunk] =
                              append_sample(@, cur.buffer, cur.shape)]
            /\ pc' = "register"
            /\ new_chunk' = 0
            /\ UNCHANGED <<err, mode, queue>>
       ELSE Raise("FullChunk") /\ UNCHANGED chunks
    /\ held' = 0
    /\ UNCHANGED <<max_chunk_size, shared, apart, call, tensor_meta, enc_exists, chunk_id_encoder,
                   out, appended, failures>>

\* _append_bytes, line 199; a uniform extend then goes on with its next buffer
RegisterSample ==
    /\ pc = "register"
    /\ IF chunk_id_encoder_corrupted
       THEN /\ Raise("CorruptedMeta")
            /\ UNCHANGED <<enc_exists, chunk_id_encoder, appended>>
       ELSE IF engine_num_chunks = 0
       THEN /\ Raise("ChunkIdEncoderError")
            /\ enc_exists' = TRUE
            /\ UNCHANGED <<chunk_id_encoder, appended>>
       ELSE /\ chunk_id_encoder' = register_samples_to_last_chunk_id(chunk_id_encoder, 1)
            /\ appended' = Append(appended, cur)
            /\ IF mode = "uniform"
               THEN /\ queue' = Tail(queue)
                    /\ pc' = IF Tail(queue) = <<>> THEN "flush_batch" ELSE "check"
               ELSE /\ pc' = "flush"
                    /\ UNCHANGED queue
            /\ UNCHANGED <<enc_exists, err, mode, new_chunk>>
    /\ UNCHANGED <<max_chunk_size, shared, held, apart, call, tensor_meta, chunks, out,
                   failures>>

\* append, line 318: cache.maybe_flush() after one sample
Flush ==
    /\ pc = "flush"
    /\ queue' = Tail(queue)
    /\ IF mode = "append"
       THEN pc' = "idle" /\ mode' = "none"
       ELSE /\ pc' = IF Tail(queue) = <<>> THEN "flush_batch" ELSE "check_size"
            /\ UNCHANGED mode
    /\ UNCHANGED <<max_chunk_size, shared, held, apart, call, tensor_meta, enc_exists,
                   chunk_id_encoder, chunks,
                   new_chunk, err, out, appended, failures>>

\* extend, line 303: cache.maybe_flush() after the batch; the extend of a
\* uniform list runs inside the extend of the list, which flushes once more
FlushBatch ==
    /\ pc = "flush_batch"
    /\ IF mode = "uniform"
       THEN pc' = "flush_outer" /\ UNCHANGED mode
       ELSE pc' = "idle" /\ mode' = "none"
    /\ UNCHANGED <<max_chunk_size, shared, held, apart, call, tensor_meta, enc_exists,
                   chunk_id_encoder, chunks,
                   queue, new_chunk, err, out, appended, failures>>

FlushOuter ==
    /\ pc = "flush_outer"
    /\ pc' = "idle"
    /\ mode' = "none"
    /\ UNCHANGED <<max_chunk_size, shared, held, apart, call, tensor_meta, enc_exists,
                   chunk_id_encoder, chunks,
                   queue, new_chunk, err, out, appended, failures>>

EngineStep ==
    \/ CheckSampleSize
    \/ PreCheck
    \/ CheckCompatibility
    \/ MetaUpdate
    \/ TryAppendingToLastChunk
    \/ CreateNewChunk
    \/ InsertNewChunk
    \/ AppendToNewChunk
    \/ RegisterSample
    \/ Flush
    \/ FlushBatch
    \/ FlushOuter

\* ------------------------------------------------------------------- reads
\* ChunkEngine.read_sample_from_chunk for an uncompressed tensor: the bytes in
\* the sample's byte range and the sample's shape
read_sample_from_chunk(global_sample_index, chunk) ==
    LET local_sample_index ==
            get_local_sample_index(chunk_id_encoder, global_sample_index)
        shape == shape_getitem(chunk.shapes_encoder, local_sample_index)
        pos == byte_positions_getitem(chunk.byte_positions_encoder, local_sample_index)
    IN  [buffer |-> Slice(chunk.data, pos[1], pos[2]), shape |-> shape]

\* lines 331-335 of numpy: the sample read for one global index
numpy_sample(global_sample_index) ==
    read_sample_from_chunk(global_sample_index,
        chunks[chunk_id_getitem(chunk_id_encoder, global_sample_index)])

\* the global indices a full slice selects
FullIndex == [i \in 1..engine_num_samples |-> i - 1]

\* the global indices the slice [::2] selects
EverySecond == [i \in 1..((engine_num_samples + 1) \div 2) |-> 2 * (i - 1)]

\* the index entries offered: the full slice, a slice with a step, one integer
NumpyIndices ==
    {FullIndex, EverySecond} \cup { <<g>> : g \in 0..(engine_num_samples - 1) }

\* a plausible slip: the shapes are compared whatever aslist says
shape_mismatch_ignoring_aslist(samples, aslist) ==
    \E k \in 2..Len(samples) : samples[k].shape # samples[k - 1].shape

\* lines 338-340 of numpy: a sample's shape differs from the one read before it
shape_mismatch(samples, aslist) ==
    /\ ~aslist
    /\ \E k \in 2..Len(samples) : samples[k].shape # samples[k - 1].shape

\* ChunkEngine.numpy(index, aslist), lines 324-328; `indices` is
\* index.values[0].indices(length).  The samples read so far are kept in `out`,
\* whose kind tells what was asked for.
numpy ==
    /\ pc = "idle"
    /\ \E indices \in NumpyIndices, aslist \in BOOLEAN :
        /\ call' = Called("numpy", <<>>, indices, aslist)
        /\ queue' = indices
        /\ out' = [kind |-> IF aslist THEN "list" ELSE "array", samples |-> <<>>]
    /\ mode' = "numpy"
    /\ pc' = "numpy_encoder"
    /\ err' = "none"
    /\ UNCHANGED <<max_chunk_size, shared, held, apart, tensor_meta, enc_exists, chunk_id_encoder,
                   chunks, new_chunk, appended, failures>>

\* the read is over: _format_samples returns what was collected
NumpyReturn ==
    /\ pc' = "idle"
    /\ mode' = "none"

\* numpy, line 326: resolving the chunk id encoder puts a blank one in the
\* cache when the key is absent
NumpyResolveEncoder ==
    /\ pc = "numpy_encoder"
    /\ IF chunk_id_encoder_corrupted
       THEN /\ Raise("CorruptedMeta")
            /\ out' = NoOut
            /\ UNCHANGED enc_exists
       ELSE /\ enc_exists' = TRUE
            /\ IF queue = <<>>
               THEN NumpyReturn
               ELSE pc' = "numpy_chunk" /\ UNCHANGED mode
            /\ UNCHANGED <<err, queue, new_chunk, out>>
    /\ UNCHANGED <<max_chunk_size, shared, held, apart, call, tensor_meta, chunk_id_encoder,
                   chunks, appended, failures>>

\* numpy, lines 331-334: the chunk of the next index is fetched from the cache
NumpyGetChunk ==
    /\ pc = "numpy_chunk"
    /\ LET chunk_id == chunk_id_getitem(chunk_id_encoder, Head(queue))
       IN  IF chunk_id \notin DOMAIN chunks
           THEN /\ Raise("KeyError")
                /\ out' = NoOut
                /\ UNCHANGED held
           ELSE /\ held' = chunk_id
                /\ pc' = "numpy_meta"
                /\ UNCHANGED <<err, mode, queue, new_chunk, out>>
    /\ UNCHANGED <<max_chunk_size, shared, apart, call, tensor_meta, enc_exists,
                   chunk_id_encoder, chunks, appended, failures>>

\* read_sample_from_chunk, line 352: the tensor meta is fetched from the cache
NumpyGetMeta ==
    /\ pc = "numpy_meta"
    /\ pc' = "numpy_local"
    /\ UNCHANGED <<max_chunk_size, shared, held, apart, call, tensor_meta, enc_exists,
                   chunk_id_encoder, chunks, mode, queue, new_chunk, err, out,
                   appended, failures>>

\* read_sample_from_chunk, lines 356-367: the chunk id encoder is fetched from
\* the cache, then the chunk fetched in line 334 is read; numpy, lines 336-343
NumpyReadSample ==
    /\ pc = "numpy_local"
    /\ LET sample == read_sample_from_chunk(Head(queue), chunks[held])
           samples == Append(out.samples, sample)
       IN  IF shape_mismatch(samples, out.kind = "list")
           THEN /\ Raise("DynamicTensorNumpyError")
                /\ out' = NoOut
           ELSE /\ out' = [out EXCEPT !.samples = samples]
                /\ queue' = Tail(queue)
                /\ IF Tail(queue) = <<>>
                   THEN NumpyReturn
                   ELSE pc' = "numpy_chunk" /\ UNCHANGED mode
                /\ UNCHANGED <<err, new_chunk>>
    /\ held' = 0
    /\ UNCHANGED <<max_chunk_size, shared, apart, call, tensor_meta, enc_exists,
                   chunk_id_encoder, chunks, appended, failures>>

NumpyStep ==
    \/ NumpyResolveEncoder
    \/ NumpyGetChunk
    \/ NumpyGetMeta
    \/ NumpyReadSample

\* ------------------------------------------------------------ cache failure
\* the steps that begin with a cache operation (get_cachable, insert,
\* maybe_flush); append_new issues none
CacheOpSteps ==
    {"check_size", "precheck", "check", "update", "try", "create", "insert",
     "register", "flush", "flush_batch", "flush_outer"}

\* the steps of numpy that begin with a cache operation: all of them
ReadCacheOpSteps ==
    {"numpy_encoder", "numpy_chunk", "numpy_meta", "numpy_local"}

\* a cache operation raises (I/O error): the call in progress is abandoned
\* where it stands
CacheFail ==
    /\ pc \in CacheOpSteps
    /\ failures < MaxFailures
    /\ Raise("CacheError")
    /\ failures' = failures + 1
    /\ UNCHANGED <<max_chunk_size, shared, held, apart, call, tensor_meta, enc_exists,
                   chunk_id_encoder, chunks,
                   out, appended>>

\* ---------------------------------------------------------- specifications
Next ==
    \/ append
    \/ extend
    \/ numpy
    \/ EngineStep
    \/ NumpyStep

\* every cache operation succeeds
Spec == Init /\ [][Next]_vars

NextExtend ==
    \/ extend
    \/ EngineStep

\* samples arrive through extend only
SpecExtend == Init /\ [][NextExtend]_vars

NextFail ==
    \/ append
    \/ extend
    \/ EngineStep
    \/ CacheFail

\* cache operations may fail
SpecFail == Init /\ [][NextFail]_vars

\* the steps of append
AppendStep ==
    \/ CheckSampleSize
    \/ CheckCompatibility
    \/ MetaUpdate
    \/ TryAppendingToLastChunk
    \/ CreateNewChunk
    \/ InsertNewChunk
    \/ AppendToNewChunk
    \/ RegisterSample
    \/ Flush

NextFailRead ==
    \/ append
    \/ numpy
    \/ AppendStep
    \/ NumpyStep
    \/ CacheFail

\* appends whose cache operations may fail, and reads
SpecFailRead == Init /\ [][NextFailRead]_vars

\* ------------------------------------------- two engines sharing one cache
\* The engine whose turn it is works on tensor_meta, enc_exists,
\* chunk_id_encoder and chunks: the entries of the cache under the keys of its
\* tensor.  When the turn changes they are written into `cache` under these
\* keys, and the entries under the keys of the other tensor are taken out.

\* the keys under which the running engine has entries
OwnKeys ==
    {get_tensor_meta_key(key)}
        \cup (IF enc_exists THEN {get_chunk_id_encoder_key(key)} ELSE {})
        \cup { engine_chunk_key(key, id) : id \in DOMAIN chunks }

\* the entry of the running engine under one of its keys
OwnEntry(k) ==
    IF k = get_tensor_meta_key(key) THEN tensor_meta
    ELSE IF k = get_chunk_id_encoder_key(key) THEN chunk_id_encoder
    ELSE chunks[CHOOSE id \in DOMAIN chunks : engine_chunk_key(key, id) = k]

\* the cache with the entries of the running engine written into it
Stored ==
    [k \in DOMAIN cache \cup OwnKeys |-> IF k \in OwnKeys THEN OwnEntry(k) ELSE cache[k]]

\* the chunks a cache holds under the chunk keys of a tensor, by chunk id
ChunksUnder(c, tensor) ==
    [id \in { i \in Ids : engine_chunk_key(tensor, i) \in DOMAIN c } |->
        c[engine_chunk_key(tensor, id)]]

\* appends to a tensor of the shared cache are offered while it holds fewer
\* samples than this
MaxSharedSamples == 2

\* samples appended to a tensor of the shared cache: one byte (a last chunk
\* may take it) and min_chunk_size bytes (the chunk is then closed)
SharedInputs ==
    { smp \in GoodDTypeSamples :
        /\ smp.shape \in {<<1>>, <<min_chunk_size>>}
        /\ smp.buffer[1] = 1 }

\* an engine calls append on its tensor
SharedAppend ==
    /\ pc = "idle"
    /\ tensor_meta.length < MaxSharedSamples
    /\ \E smp \in SharedInputs : CallAppend(smp)

\* the running engine is suspended at a cache operation or between calls and
\* the other engine goes on from where it was
ChangeTurn ==
    /\ pc \in CacheOpSteps \cup {"idle"}
    /\ cache' = Stored
    /\ key' = rest.key
    /\ tensor_meta' = Stored[get_tensor_meta_key(rest.key)]
    /\ enc_exists' = (get_chunk_id_encoder_key(rest.key) \in DOMAIN Stored)
    /\ chunk_id_encoder' = IF get_chunk_id_encoder_key(rest.key) \in DOMAIN Stored
                           THEN Stored[get_chunk_id_encoder_key(rest.key)]
                           ELSE <<>>
    /\ chunks' = ChunksUnder(Stored, rest.key)
    /\ pc' = rest.pc
    /\ mode' = rest.mode
    /\ queue' = rest.queue
    /\ new_chunk' = rest.new_chunk
    /\ err' = rest.err
    /\ out' = rest.out
    /\ appended' = rest.appended
    /\ held' = rest.held
    /\ rest' = [key |-> key, pc |-> pc, mode |-> mode, queue |-> queue,
                new_chunk |-> new_chunk, err |-> err, out |-> out,
                appended |-> appended, held |-> held,
                tensor_meta |-> tensor_meta, enc_exists |-> enc_exists,
                chunk_id_encoder |-> chunk_id_encoder, chunks |-> chunks]
    /\ UNCHANGED <<max_chunk_size, apart, call, failures>>

NextShared ==
    \/ SharedAppend
    \/ AppendStep
    \/ ChangeTurn

\* two engines with different tensor keys append through one cache
SpecShared == Init /\ [][NextShared]_vars

\* ------------------------------------------------- a chunk used on its own
\* shapes handed to Chunk.append_sample
ChunkShapes == { <<n>> : n \in 0..(max_chunk_size + 1) }

\* shapes handed to Chunk.update_sample for a sample: the one stored for it,
\* one of the same rank that differs, one of another rank with as many bytes
UpdateShapes(stored) ==
    {stored, <<stored[1] + 1>>, <<1, stored[1]>>}

\* buffers handed to Chunk.update_sample: any length up to max_chunk_size,
\* with bytes no appended buffer has at these positions
UpdateBuffers ==
    { [i \in 1..n |-> (2 + i) % 256] : n \in 0..max_chunk_size }

\* chunk.append_sample(buffer, max_chunk_size, shape)
ChunkAppendSample ==
    /\ ChunkSamples(chunk_obj) < MaxSamples
    /\ \E shape \in ChunkShapes : \E buffer \in Buffers(shape) :
        /\ call' = Called("append_sample",
                          <<[buffer |-> buffer, shape |-> shape, dtype |-> "uint8"]>>,
                          <<>>, FALSE)
        /\ IF has_space_for(chunk_obj, Len(buffer), max_chunk_size)
           THEN /\ chunk_obj' = append_sample(chunk_obj, buffer, shape)
                /\ err' = "none"
           ELSE /\ err' = "FullChunk"
                /\ UNCHANGED chunk_obj
    /\ UNCHANGED <<max_chunk_size, shared, held, encoder_obj, positions_obj, tensor_meta, enc_exists,
                   chunk_id_encoder, chunks, pc, mode, queue, new_chunk, out,
                   appended, failures>>

\* chunk.update_sample(local_sample_index, buffer, shape) for an index the
\* chunk holds
ChunkUpdateSample ==
    /\ \E i \in 0..(ChunkSamples(chunk_obj) - 1), buffer \in UpdateBuffers :
       \E shape \in UpdateShapes(shape_getitem(chunk_obj.shapes_encoder, i)) :
        /\ call' = Called("update_sample",
                          <<[buffer |-> buffer, shape |-> shape, dtype |-> "uint8"]>>,
                          <<i>>, FALSE)
        /\ chunk_obj' = update_sample(chunk_obj, i, buffer, shape)
        /\ err' = update_sample_error(chunk_obj, i, buffer, shape)
    /\ UNCHANGED <<max_chunk_size, shared, held, encoder_obj, positions_obj, tensor_meta, enc_exists,
                   chunk_id_encoder, chunks, pc, mode, queue, new_chunk, out,
                   appended, failures>>

\* the chunk leaves the cache and is read back: Chunk.frombuffer of what
\* tobytes wrote, or of the empty buffer of a key that was never written
ChunkReload ==
    /\ \E buffer \in {tobytes(chunk_obj), <<>>} :
        /\ call' = Called("frombuffer", <<buffer>>, <<>>, FALSE)
        /\ chunk_obj' = frombuffer(buffer)
        /\ err' = "none"
    /\ UNCHANGED <<max_chunk_size, shared, held, encoder_obj, positions_obj, tensor_meta, enc_exists,
                   chunk_id_encoder, chunks, pc, mode, queue, new_chunk, out,
                   appended, failures>>

NextChunk ==
    \/ ChunkAppendSample
    \/ ChunkUpdateSample
    \/ ChunkReload

\* one Chunk, driven through append_sample, update_sample, tobytes, frombuffer
SpecChunk == Init /\ [][NextChunk]_vars

\* ---------------------------------------------- an encoder used on its own
\* the items registered and set: shapes of rank 1
EncoderItems == { <<0>>, <<1>>, <<2>> }

\* the LAST column holds no index past the bound: the encoder is used no
\* further once an index has wrapped
WithinEncoderBound ==
    \A r \in 1..Len(encoder_obj) : encoder_obj[r].last <= MaxEncoderSamples

\* encoder.register_samples(item, n); n <= 0 is refused by
\* _validate_incoming_item
EncoderRegisterSamples ==
    /\ WithinEncoderBound
    /\ \E item \in EncoderItems, n \in 0..2 :
        /\ num_samples(encoder_obj) + n <= MaxEncoderSamples
        /\ call' = Called("register_samples", <<item>>, <<n>>, FALSE)
        /\ IF n <= 0
           THEN /\ err' = "ValueError"
                /\ UNCHANGED encoder_obj
           ELSE /\ err' = "none"
                /\ encoder_obj' = add_shape(encoder_obj, item, n)
    /\ UNCHANGED <<max_chunk_size, shared, held, chunk_obj, positions_obj, tensor_meta, enc_exists,
                   chunk_id_encoder, chunks, pc, mode, queue, new_chunk, out,
                   appended, failures>>

\* encoder[local_sample_index] = item for an index below num_samples
EncoderSetItem ==
    /\ WithinEncoderBound
    /\ \E i \in 0..(Min2(num_samples(encoder_obj), MaxEncoderSamples) - 1),
          item \in EncoderItems :
        /\ call' = Called("setitem", <<item>>, <<i>>, FALSE)
        /\ IF setitem_row(encoder_obj, i) > Len(encoder_obj)
           THEN /\ err' = "IndexError"
                /\ UNCHANGED encoder_obj
           ELSE /\ err' = IF setitem_action("shape", encoder_obj, i, item)
                                = "not_implemented"
                          THEN "NotSupported" ELSE "none"
                /\ encoder_obj' = setitem("shape", encoder_obj, i, item)
    /\ UNCHANGED <<max_chunk_size, shared, held, chunk_obj, positions_obj, tensor_meta, enc_exists,
                   chunk_id_encoder, chunks, pc, mode, queue, new_chunk, out,
                   appended, failures>>

\* the indices handed to encoder[...]: every index of the table, counted
\* from the front and from the back, and two more on either side
GetItemIndices(encoded) ==
    (-(num_samples(encoded) + 2))..(num_samples(encoded) + 1)

\* encoder[local_sample_index]
EncoderGetItem ==
    /\ WithinEncoderBound
    /\ \E i \in GetItemIndices(encoder_obj) :
        /\ call' = Called("getitem", <<>>, <<i>>, FALSE)
        /\ IF getitem_error(encoder_obj, i) = "IndexError"
           THEN /\ err' = "IndexError"
                /\ out' = NoOut
           ELSE /\ err' = "none"
                /\ out' = [kind |-> "item",
                           samples |-> <<shape_getitem(encoder_obj, i)>>]
    /\ UNCHANGED <<max_chunk_size, shared, held, apart, tensor_meta, enc_exists,
                   chunk_id_encoder, chunks, pc, mode, queue, new_chunk,
                   appended, failures>>

NextEncoder ==
    \/ EncoderRegisterSamples
    \/ EncoderSetItem
    \/ EncoderGetItem

\* one ShapeEncoder, driven through register_samples and __setitem__
SpecEncoder == Init /\ [][NextEncoder]_vars

\* ------------------------------ a byte positions encoder used on its own
\* the byte counts registered
PositionSizes == {0, 1, 2}

\* encoder.register_samples(nbytes, n)
PositionsRegisterSamples ==
    /\ \E nbytes \in PositionSizes, n \in 0..2 :
        /\ num_samples(positions_obj) + n <= MaxEncoderSamples
        /\ call' = Called("register_byte_positions", <<nbytes>>, <<n>>, FALSE)
        /\ IF n <= 0
           THEN /\ err' = "ValueError"
                /\ UNCHANGED positions_obj
           ELSE /\ err' = "none"
                /\ positions_obj' = add_byte_position(positions_obj, nbytes, n)
    /\ UNCHANGED <<max_chunk_size, shared, held, chunk_obj, encoder_obj, tensor_meta, enc_exists,
                   chunk_id_encoder, chunks, pc, mode, queue, new_chunk, out,
                   appended, failures>>

\* encoder[local_sample_index] for an index counted from the front
PositionsGetItem ==
    /\ \E i \in 0..num_samples(positions_obj) :
        /\ call' = Called("byte_positions_getitem", <<>>, <<i>>, FALSE)
        /\ IF getitem_error(positions_obj, i) = "IndexError"
           THEN /\ err' = "IndexError"
                /\ out' = NoOut
           ELSE /\ err' = "none"
                /\ out' = [kind |-> "item",
                           samples |-> <<byte_positions_getitem(positions_obj, i)>>]
    /\ UNCHANGED <<max_chunk_size, shared, held, apart, tensor_meta, enc_exists,
                   chunk_id_encoder, chunks, pc, mode, queue, new_chunk,
                   appended, failures>>

NextPositions ==
    \/ PositionsRegisterSamples
    \/ PositionsGetItem

\* one BytePositionsEncoder, driven through register_samples and __getitem__
SpecPositions == Init /\ [][NextPositions]_vars

\* ------------------------------------- the docstring example (scenario S3)
\* sample sizes of the three extend calls, lines 63 and 79 of chunk_engine.py
S3Batches == << <<1, 1, 14, 15>>, <<15>>, <<15, 1>> >>

\* number of samples of the batches before batch k
RECURSIVE S3Offset(_)
S3Offset(k) == IF k = 1 THEN 0 ELSE S3Offset(k - 1) + Len(S3Batches[k - 1])

S3Sample(n, f) ==
    [buffer |-> [i \in 1..n |-> (f + i) % 256], shape |-> <<n>>, dtype |-> "uint8"]

InitS3 ==
    /\ max_chunk_size = S3MaxChunkSize
    /\ InitEngine

\* the next batch of the example is handed to extend
S3Extend ==
    /\ pc = "idle"
    /\ err = "none"
    /\ \E k \in 1..Len(S3Batches) :
        /\ Len(appended) = S3Offset(k)
        /\ \E fills \in [1..Len(S3Batches[k]) -> Fills] :
              CallExtend([i \in 1..Len(S3Batches[k]) |->
                              S3Sample(S3Batches[k][i], fills[i])])

NextS3 ==
    \/ S3Extend
    \/ EngineStep

SpecS3 == InitS3 /\ [][NextS3]_vars

\* ================================================================== claims
\* rows of the chunk id encoder whose chunk is in the cache
ChunkRows == { r \in 1..Len(chunk_id_encoder) : chunk_id_encoder[r].val \in DOMAIN chunks }

\* the chunk of row r of the chunk id encoder
ChunkOfRow(r) == chunks[chunk_id_encoder[r].val]

RECURSIVE SumOver(_, _)
SumOver(f, S) ==
    IF S = {} THEN 0
    ELSE LET x == CHOOSE y \in S : TRUE IN f[x] + SumOver(f, S \ {x})

\* samples stored in chunk headers and data
StoredSamples == SumOver([id \in DOMAIN chunks |-> ChunkSamples(chunks[id])], DOMAIN chunks)

\* bytes of the samples appended so far
TotalBytes == SumOver([i \in 1..Len(appended) |-> Len(appended[i].buffer)], 1..Len(appended))

\* ---- C1
\* C1: after any sequence of append / extend calls that accept only samples of
\* at most min_chunk_size bytes, no chunk holds more than max_chunk_size bytes
\* of data.
C1_NoChunkExceedsMax ==
    \A id \in DOMAIN chunks : Len(chunks[id].data) <= max_chunk_size

\* a chunk that took a second sample and grew past min_chunk_size
C1_Witness ==
    /\ pc = "idle"
    /\ \E id \in DOMAIN chunks :
          /\ ChunkSamples(chunks[id]) >= 2
          /\ Len(chunks[id].data) > min_chunk_size

\* ---- C2
\* what a step may do to the chunks: the storing step of an append changes
\* one chunk, any other step none
C2_StoreStep ==
    IF pc \in {"try", "append_new"} /\ pc' = "register"
    THEN \E id \in DOMAIN chunks :
            /\ DOMAIN chunks' = DOMAIN chunks
            /\ \A other \in DOMAIN chunks \ {id} : chunks'[other] = chunks[other]
            /\ chunks'[id].data = chunks[id].data \o cur.buffer
            /\ ChunkSamples(chunks'[id]) = ChunkSamples(chunks[id]) + 1
    ELSE /\ pc' # "register"
         /\ \A id \in DOMAIN chunks : id \in DOMAIN chunks' /\ chunks'[id] = chunks[id]
         /\ \A id \in DOMAIN chunks' \ DOMAIN chunks : chunks'[id] = EmptyChunk

\* C2: the step of an append that stores the sample changes exactly one chunk,
\* whose data grows by the whole buffer (never a part of it) and whose header
\* gains one sample; no other step changes the data or header of any chunk (a
\* chunk that enters the cache enters empty).
C2_SampleNeverSplit == [][C2_StoreStep]_vars

\* a non-empty buffer has just been stored behind other data of the last chunk
C2_Witness ==
    /\ pc = "register"
    /\ Len(cur.buffer) > 0
    /\ engine_num_chunks > 0
    /\ last_chunk_id \in DOMAIN chunks
    /\ Len(chunks[last_chunk_id].data) > Len(cur.buffer)

\* ---- C3
\* the read of global index g resolves inside the tables and returns `smp`
ReadsBack(g, smp) ==
    LET row == translate_index(chunk_id_encoder, g)
    IN  /\ row <= Len(chunk_id_encoder)
        /\ chunk_id_encoder[row].val \in DOMAIN chunks
        /\ LET chunk == chunks[chunk_id_encoder[row].val]
               local == get_local_sample_index(chunk_id_encoder, g)
           IN  /\ local >= 0
               /\ local < ChunkSamples(chunk)
               /\ local < num_samples(chunk.shapes_encoder)
               /\ translate_index(chunk.shapes_encoder, local)
                     <= Len(chunk.shapes_encoder)
               /\ translate_index(chunk.byte_positions_encoder, local)
                     <= Len(chunk.byte_positions_encoder)
               /\ numpy_sample(g) = [buffer |-> smp.buffer, shape |-> smp.shape]

\* C3: between calls, reading global index g returns the bytes and the shape of
\* the (g+1)-th appended sample, for every g below the number of appended samples.
C3_AppendReadIdentity ==
    pc = "idle" =>
        /\ engine_num_samples = Len(appended)
        /\ \A g \in 0..(Len(appended) - 1) : ReadsBack(g, appended[g + 1])

\* three samples over two chunks, one chunk holding two of them
C3_Witness ==
    /\ pc = "idle"
    /\ Len(appended) >= 3
    /\ engine_num_chunks >= 2
    /\ \E id \in DOMAIN chunks : ChunkSamples(chunks[id]) >= 2
    /\ \A g \in 0..(Len(appended) - 1) : ReadsBack(g, appended[g + 1])

\* ---- C4
\* C4: after any sequence of appends, every chunk but the most recently
\* created one holds at least min_chunk_size and at most max_chunk_size bytes
\* of data.
C4_OnlyLastBelowMin ==
    pc = "idle" =>
        \A r \in ChunkRows :
            r < Len(chunk_id_encoder) =>
                /\ Len(ChunkOfRow(r).data) >= min_chunk_size
                /\ Len(ChunkOfRow(r).data) <= max_chunk_size

\* ---- C5
\* the least k with k * m >= a, i.e. ceil(a / m)
LeastCount(a, m) == CHOOSE k \in 0..a : k * m >= a /\ (k = 0 \/ (k - 1) * m < a)

C6_S3TwoChunksOf31 ==
    (pc = "idle" /\ Len(appended) = S3Offset(Len(S3Batches) + 1)) =>
        /\ Len(chunk_id_encoder) = 2
        /\ ChunkRows = {1, 2}
        /\ Len(ChunkOfRow(1).data) = 31
        /\ Len(ChunkOfRow(2).data) = 31
        /\ chunk_id_encoder[1].last = 3
        /\ chunk_id_encoder[2].last = 6

\* ---- C7
\* the placement decision of one append, step by step
C7_Step ==
    /\ pc = "try" =>
          LET L == Len(cur.buffer)
              takes ==
                  /\ engine_num_chunks > 0
                  /\ last_chunk_id \in DOMAIN chunks
                  /\ Len(chunks[last_chunk_id].data) < min_chunk_size
                  /\ LeastCount(L + Len(chunks[last_chunk_id].data), max_chunk_size)
                        = LeastCount(L, max_chunk_size)
          IN  IF takes
              THEN /\ pc' = "register"
                   /\ chunk_id_encoder' = chunk_id_encoder
                   /\ DOMAIN chunks' = DOMAIN chunks
                   /\ ChunkSamples(chunks'[last_chunk_id])
                         = ChunkSamples(chunks[last_chunk_id]) + 1
              ELSE /\ pc' = "create"
                   /\ chunks' = chunks
    /\ pc = "create" =>
          /\ Len(chunk_id_encoder') = Len(chunk_id_encoder) + 1
          /\ new_chunk' \notin DOMAIN chunks
    /\ pc = "append_new" =>
          /\ new_chunk = last_chunk_id
          /\ ChunkSamples(chunks[new_chunk]) = 0
          /\ ChunkSamples(chunks'[new_chunk]) = 1
          /\ chunks'[new_chunk].data = cur.buffer

C8_Step ==
    /\ tensor_meta' # tensor_meta =>
          /\ pc = "update"
          /\ tensor_meta'.length = tensor_meta.length + 1
          /\ chunks' = chunks
          /\ chunk_id_encoder' = chunk_id_encoder
    /\ (pc' = "update" /\ pc # "update") =>
          /\ pc = "check"
          /\ check_compatibility(tensor_meta, cur.shape, cur.dtype)
    /\ (chunks' # chunks \/ chunk_id_encoder' # chunk_id_encoder) =>
          /\ tensor_meta' = tensor_meta
          /\ tensor_meta.length = Len(appended) + 1
          /\ Len(tensor_meta.min_shape) = Len(cur.shape)
          /\ \A i \in 1..Len(cur.shape) :
                /\ tensor_meta.min_shape[i] <= cur.shape[i]
                /\ cur.shape[i] <= tensor_meta.max_shape[i]

\* C8: tensor meta changes only in the update step, which follows a passed
\* compatibility check and adds 1 to length without touching chunks or the
\* chunk id encoder; every step that changes a chunk or the chunk id encoder
\* finds the sample already counted and covered by the shape bounds; and
\* tensor meta length is never below the number of samples stored in chunks.
C8_MetaUpdatedFirst ==
    /\ [](tensor_meta.length >= StoredSamples)
    /\ [][C8_Step]_vars

\* inside an append, after the meta update and before the write
C8_Witness ==
    /\ pc \in {"try", "create", "insert", "append_new"}
    /\ StoredSamples >= 1
    /\ tensor_meta.length = StoredSamples + 1

\* ---- C9
\* C9: at every point, also after an append abandoned at a cache operation,
\* tensor meta length >= samples registered in the chunk id encoder >= samples
\* stored in chunk headers and data.
C9_MetaRegisteredStored ==
    /\ tensor_meta.length >= engine_num_samples
    /\ engine_num_samples >= StoredSamples

\* ---- C10
\* C10: between calls, whatever cache operations failed, tensor meta length
\* exceeds the number of samples registered in the chunk id encoder by at most 1.
C10_GapAtMostOne ==
    pc = "idle" => tensor_meta.length <= engine_num_samples + 1

\* ---- C11
\* the tensor meta, the chunk id encoder and the chunks are as the last call
\* found them
AsCallFoundIt ==
    /\ tensor_meta = call.tensor_meta
    /\ enc_exists = call.enc_exists
    /\ chunk_id_encoder = call.chunk_id_encoder
    /\ chunks = call.chunks

\* C11: an append of a sample longer than min_chunk_size ends in NotSupported
\* (NotImplementedError in the source), an append of a sample of another dtype
\* or rank than the tensor's ends in an exception, both with tensor meta, chunk
\* id encoder and chunks as the call found them; a sample of exactly
\* min_chunk_size bytes that is compatible is stored.
C11_AppendRejectsBeforeWrite ==
    (pc = "idle" /\ call.name = "append") =>
        LET smp == call.samples[1]
            L == Len(smp.buffer)
            compatible ==
                /\ smp.dtype = call.tensor_meta.dtype
                /\ call.tensor_meta.length > 0 =>
                      Len(smp.shape) = Len(call.tensor_meta.min_shape)
        IN  /\ L > min_chunk_size => (err = "NotSupported" /\ AsCallFoundIt)
            /\ (L <= min_chunk_size /\ ~compatible) =>
                  (err = "TensorMetaMismatch" /\ AsCallFoundIt)
            /\ (L = min_chunk_size /\ compatible) =>
                  /\ err = "none"
                  /\ appended = Append(call.appended, smp)
                  /\ tensor_meta.length = call.tensor_meta.length + 1
                  /\ StoredSamples = Len(appended)

\* an append refused for its size by a tensor that already holds samples
C11_Witness ==
    /\ pc = "idle"
    /\ call.name = "append"
    /\ err = "NotSupported"
    /\ call.tensor_meta.length >= 1
    /\ StoredSamples >= 1

\* ---- C12
\* C12: when extend ends in the rejection of a sample (too large, or of
\* another dtype or rank), tensor meta, chunk id encoder and chunks are as the
\* call found them, for a uniform batch and for any other list alike.
C12_ExtendRejectsBeforeWrite ==
    (pc = "idle" /\ call.name = "extend"
        /\ err \in {"NotSupported", "TensorMetaMismatch"}) => AsCallFoundIt

\* ---- C13
\* C13: numpy(index, aslist = false) ends in DynamicTensorNumpyError exactly
\* when the samples the index selects do not all have one shape;
\* numpy(index, aslist = true) never does and returns a list with one element
\* for every selected index, in order.
C13_DynamicExactlyOnMixedShapes ==
    (pc = "idle" /\ call.name = "numpy") =>
        LET idx == call.indices
            selected == [k \in 1..Len(idx) |-> appended[idx[k] + 1]]
            shapes == { selected[k].shape : k \in 1..Len(idx) }
        IN  IF call.aslist
            THEN /\ err = "none"
                 /\ out.kind = "list"
                 /\ Len(out.samples) = Len(idx)
                 /\ \A k \in 1..Len(idx) : out.samples[k].shape = selected[k].shape
            ELSE /\ err = "DynamicTensorNumpyError" <=> Cardinality(shapes) > 1
                 /\ err = "none" <=> Cardinality(shapes) <= 1
                 /\ err = "none" => (out.kind = "array" /\ Len(out.samples) = Len(idx))

\* a dense read of three samples refused because the middle one differs
C13_Witness ==
    /\ pc = "idle"
    /\ call.name = "numpy"
    /\ ~call.aslist
    /\ err = "DynamicTensorNumpyError"
    /\ Len(call.indices) = 3
    /\ appended[1].shape = appended[3].shape

\* ---- C14
\* byte range the header of the lone chunk records for a sample
BytePos(i) == byte_positions_getitem(chunk_obj.byte_positions_encoder, i)

\* C14: in every chunk reached through append_sample and update_sample calls,
\* sample 0 starts at byte 0, every sample ends where the next one starts, and
\* the byte lengths of the samples add up to len(data).
C14_NoStraddling ==
    LET n == ChunkSamples(chunk_obj)
    IN  /\ n > 0 => BytePos(0)[1] = 0
        /\ \A i \in 0..(n - 2) : BytePos(i)[2] = BytePos(i + 1)[1]
        /\ SumOver([i \in 0..(n - 1) |-> BytePos(i)[2] - BytePos(i)[1]], 0..(n - 1))
              = Len(chunk_obj.data)

\* a chunk of three samples of two byte lengths whose middle sample has just
\* been overwritten
C14_Witness ==
    /\ call.name = "update_sample"
    /\ call.indices = <<1>>
    /\ err = "none"
    /\ ChunkSamples(chunk_obj) = 3
    /\ Len(chunk_obj.byte_positions_encoder) >= 2
    /\ BytePos(1)[2] > BytePos(1)[1]

\* ---- C15
\* what one append_sample call does to the lone chunk
C15_Step ==
    call'.name = "append_sample" =>
        LET smp == call'.samples[1]
            n == ChunkSamples(chunk_obj)
            old == Len(chunk_obj.data)
        IN  IF old + Len(smp.buffer) > max_chunk_size
            THEN /\ err' = "FullChunk"
                 /\ chunk_obj' = chunk_obj
            ELSE /\ err' = "none"
                 /\ chunk_obj'.data = chunk_obj.data \o smp.buffer
                 /\ num_samples(chunk_obj'.shapes_encoder) = n + 1
                 /\ num_samples(chunk_obj'.byte_positions_encoder) = n + 1
                 /\ shape_getitem(chunk_obj'.shapes_encoder, n) = smp.shape
                 /\ byte_positions_getitem(chunk_obj'.byte_positions_encoder, n)
                       = <<old, old + Len(smp.buffer)>>
                 /\ \A i \in 0..(n - 1) :
                       /\ shape_getitem(chunk_obj'.shapes_encoder, i)
                             = shape_getitem(chunk_obj.shapes_encoder, i)
                       /\ byte_positions_getitem(chunk_obj'.byte_positions_encoder, i)
                             = byte_positions_getitem(chunk_obj.byte_positions_encoder, i)

\* C15: Chunk.append_sample(buf, max, shape) raises FullChunk exactly when
\* len(data) + len(buf) > max and then leaves data and both header encoders
\* unchanged; otherwise it appends buf at the end of data and registers exactly
\* one shape and one byte length, also when buf is empty.
C15_AppendSampleOrFullChunk == [][C15_Step]_vars

\* an empty buffer has been appended behind other data
C15_Witness ==
    /\ call.name = "append_sample"
    /\ err = "none"
    /\ Len(call.samples[1].buffer) = 0
    /\ Len(chunk_obj.data) > 0
    /\ ChunkSamples(chunk_obj) >= 2

\* ---- C16
\* what an update_sample call with a wrong shape or byte count does
C16_Step ==
    call'.name = "update_sample" =>
        LET smp == call'.samples[1]
            i == call'.indices[1]
            stored_shape == shape_getitem(chunk_obj.shapes_encoder, i)
            stored_nbytes == BytePos(i)[2] - BytePos(i)[1]
        IN  (smp.shape # stored_shape \/ Len(smp.buffer) # stored_nbytes) =>
                /\ err' = "NotSupported"
                /\ chunk_obj' = chunk_obj

\* C16: Chunk.update_sample(i, buf, shape) raises NotSupported
\* (NotImplementedError in the source) when shape differs from the shape stored
\* for sample i or len(buf) differs from its stored byte length, and then the
\* data and both header encoders are unchanged.
C16_UpdateRejectsMismatch == [][C16_Step]_vars

\* an update with the stored shape and a shorter buffer has been refused
C16_Witness ==
    /\ call.name = "update_sample"
    /\ err = "NotSupported"
    /\ call.samples[1].shape = shape_getitem(chunk_obj.shapes_encoder, call.indices[1])
    /\ Len(call.samples[1].buffer) > 0
    /\ Len(call.samples[1].buffer)
          < BytePos(call.indices[1])[2] - BytePos(call.indices[1])[1]

\* ---- C17
\* what an update_sample call that returns does to the lone chunk
C17_Step ==
    (call'.name = "update_sample" /\ err' = "none") =>
        LET buffer == call'.samples[1].buffer
            i == call'.indices[1]
            sb == BytePos(i)[1]
            eb == BytePos(i)[2]
            n == ChunkSamples(chunk_obj)
        IN  /\ Len(chunk_obj'.data) = Len(chunk_obj.data)
            /\ SubSeq(chunk_obj'.data, sb + 1, eb) = buffer
            /\ \A k \in 1..Len(chunk_obj.data) :
                  (k <= sb \/ k > eb) => chunk_obj'.data[k] = chunk_obj.data[k]
            /\ chunk_obj'.shapes_encoder = chunk_obj.shapes_encoder
            /\ ChunkSamples(chunk_obj') = n
            /\ \A j \in 0..(n - 1) :
                  byte_positions_getitem(chunk_obj'.byte_positions_encoder, j)
                      = BytePos(j)

\* C17: a Chunk.update_sample(i, buf, shape) that returns changes only the
\* data bytes in the byte range [sb, eb) recorded for sample i, which become
\* buf; len(data), the bytes of every other sample, and the shape and byte
\* range of every sample are unchanged.
C17_UpdateChangesOnlyItsRange == [][C17_Step]_vars

\* the first of two non-empty samples has been overwritten
C17_Witness ==
    /\ call.name = "update_sample"
    /\ err = "none"
    /\ call.indices = <<0>>
    /\ Len(call.samples[1].buffer) > 0
    /\ ChunkSamples(chunk_obj) = 2
    /\ BytePos(1)[2] > BytePos(1)[1]
    /\ SubSeq(chunk_obj.data, 1, BytePos(0)[2]) = call.samples[1].buffer

\* ---- C18
\* C18: writing back what was just read changes nothing: for every sample g of
\* the chunk, setting the shape table at g to the shape it holds for g takes
\* the no-change action and leaves the table as it is, and update_sample with
\* the bytes and the shape the chunk holds for g returns and leaves data and
\* both header tables as they are.
C18_WriteBackChangesNothing ==
    LET shapes == chunk_obj.shapes_encoder
    IN  \A g \in 0..(ChunkSamples(chunk_obj) - 1) :
            LET shape == shape_getitem(shapes, g)
                bytes == Slice(chunk_obj.data, BytePos(g)[1], BytePos(g)[2])
            IN  /\ setitem_action("shape", shapes, g, shape) = "no_change"
                /\ setitem("shape", shapes, g, shape) = shapes
                /\ update_sample_error(chunk_obj, g, bytes, shape) = "none"
                /\ update_sample(chunk_obj, g, bytes, shape) = chunk_obj

\* a chunk of three samples whose first header rows cover two samples each
\* and whose data an update has rewritten
C18_Witness ==
    /\ call.name = "update_sample"
    /\ err = "none"
    /\ ChunkSamples(chunk_obj) = 3
    /\ Len(chunk_obj.shapes_encoder) = 2
    /\ num_samples_at(chunk_obj.shapes_encoder, 1) = 2
    /\ num_samples_at(chunk_obj.byte_positions_encoder, 1) = 2
    /\ Len(chunk_obj.data) > 0

\* ---- C19
\* C19: Chunk.frombuffer(chunk.tobytes()) has a shape table, a byte positions
\* table and data equal to the chunk's, and Chunk.frombuffer of an empty
\* buffer is a chunk without samples and without data.
C19_ChunkRoundTrip ==
    LET back == frombuffer(tobytes(chunk_obj))
    IN  /\ back.shapes_encoder = chunk_obj.shapes_encoder
        /\ back.byte_positions_encoder = chunk_obj.byte_positions_encoder
        /\ back.data = chunk_obj.data
        /\ (call.name = "frombuffer" /\ call.samples[1] = <<>>) =>
              /\ ChunkSamples(chunk_obj) = 0
              /\ num_samples(chunk_obj.shapes_encoder) = 0
              /\ chunk_obj.data = <<>>

\* a chunk of several samples and two header rows has been read back from its
\* bytes
C19_Witness ==
    /\ call.name = "frombuffer"
    /\ call.samples[1] # <<>>
    /\ ChunkSamples(chunk_obj) >= 3
    /\ Len(chunk_obj.shapes_encoder) >= 2
    /\ Len(chunk_obj.data) > 0

\* ---- C20
\* C20: after any sequence of register_samples calls with n > 0 and
\* __setitem__ calls that return, the LAST column of the table is strictly
\* increasing from row to row: no two rows share an index, no row covers zero
\* samples, and no index has wrapped below 0.
C20_LastStrictlyIncreasing ==
    /\ \A r \in 1..(Len(encoder_obj) - 1) :
          encoder_obj[r].last < encoder_obj[r + 1].last
    /\ \A r \in 1..Len(encoder_obj) :
          /\ num_samples_at(encoder_obj, r) >= 1
          /\ encoder_obj[r].last # WrappedMinusOne

\* ---- C21
\* what a register_samples call that returns does to the sample count
C21_Step ==
    (call'.name = "register_samples" /\ err' = "none") =>
        LET n == call'.indices[1]
        IN  /\ n > 0
            /\ num_samples(encoder_obj') = num_samples(encoder_obj) + n
            /\ encoder_obj'[Len(encoder_obj')].last + 1 = num_samples(encoder_obj')

\* C21: an encoder without rows has num_samples 0, and every
\* register_samples(item, n) with n > 0 adds n to num_samples, which then
\* equals encoded[-1, LAST] + 1; so on an initially empty encoder num_samples
\* is the sum of the n registered.
C21_NumSamplesIsSum ==
    /\ [](Len(encoder_obj) = 0 => num_samples(encoder_obj) = 0)
    /\ [][C21_Step]_vars

\* two samples have been registered behind two others in a row of their own
C21_Witness ==
    /\ call.name = "register_samples"
    /\ err = "none"
    /\ call.indices = <<2>>
    /\ Len(encoder_obj) >= 2
    /\ num_samples(encoder_obj) = 4
    /\ num_samples_at(encoder_obj, Len(encoder_obj)) = 2

\* ---- C22
\* np.searchsorted expects a sorted array: the LAST column does not decrease
LastColumnSorted(encoded) ==
    \A r \in 1..(Len(encoded) - 1) : encoded[r].last <= encoded[r + 1].last

C23_Step ==
    (call'.name = "register_samples" /\ err' = "none") =>
        LET item == call'.samples[1]
            rows == Len(encoder_obj)
        IN  /\ Len(encoder_obj') \in {rows, rows + 1}
            /\ encoder_obj'[Len(encoder_obj')].val = item
            /\ (rows > 0 /\ encoder_obj[rows].val = item) =>
                  Len(encoder_obj') = rows
            /\ (call.name = "register_samples" /\ err = "none"
                    /\ call.samples[1] = item) =>
                  Len(encoder_obj') = rows

\* C23: a register_samples call adds at most one row, and none when the item
\* equals the value of the last row; a registration that directly follows a
\* registration of the same value adds none, so a run of N registrations of
\* one value adds at most one row in total.
C23_AtMostOneRowPerRun == [][C23_Step]_vars

\* the last of two rows covers three samples, which took two registrations
C23_Witness ==
    /\ call.name = "register_samples"
    /\ err = "none"
    /\ Len(encoder_obj) = 2
    /\ num_samples_at(encoder_obj, 2) = 3
    /\ encoder_obj[2].val = call.samples[1]

\* ---- C24
\* byte range the lone byte positions encoder gives for a sample
Range(i) == byte_positions_getitem(positions_obj, i)

\* what a register_samples(nbytes, n) call that returns does to the ranges
C24_Step ==
    (call'.name = "register_byte_positions" /\ err' = "none") =>
        LET nbytes == call'.samples[1]
            n == call'.indices[1]
            old == num_samples(positions_obj)
            end == IF old = 0 THEN 0 ELSE Range(old - 1)[2]
        IN  /\ num_samples(positions_obj') = old + n
            /\ \A j \in 0..(old - 1) :
                  byte_positions_getitem(positions_obj', j) = Range(j)
            /\ \A k \in 0..(n - 1) :
                  byte_positions_getitem(positions_obj', old + k)
                      = <<end + k * nbytes, end + (k + 1) * nbytes>>

\* C24: in a BytePositionsEncoder built by register_samples(nbytes, n) calls,
\* sample 0 starts at byte 0 and every sample ends where the next one starts;
\* a call gives each of its n samples a range of nbytes bytes, the first of
\* them starting at the end of the last sample registered before, and leaves
\* the ranges of the earlier samples as they were (so the last end is the
\* total number of bytes registered).
C24_RangesContiguous ==
    /\ [](LET n == num_samples(positions_obj)
          IN  /\ n > 0 => Range(0)[1] = 0
              /\ \A i \in 0..(n - 2) : Range(i)[2] = Range(i + 1)[1])
    /\ [][C24_Step]_vars

\* three rows of different byte counts, the middle one covering two samples,
\* and the last sample has been looked up
C24_Witness ==
    /\ call.name = "byte_positions_getitem"
    /\ err = "none"
    /\ Len(positions_obj) = 3
    /\ num_samples_at(positions_obj, 2) = 2
    /\ positions_obj[1].val[1] > 0
    /\ positions_obj[2].val[1] > 0
    /\ call.indices = <<num_samples(positions_obj) - 1>>
    /\ out.samples[1] = Range(num_samples(positions_obj) - 1)

\* ---- C25
\* C25: a lookup enc[g] ends in IndexError and returns no value when the
\* encoder is empty, when g >= num_samples and when g < -num_samples.
C25_LookupOutOfRangeRaises ==
    call.name = "getitem" =>
        LET g == call.indices[1]
            n == num_samples(encoder_obj)
        IN  (n = 0 \/ g >= n \/ g < -n) => (err = "IndexError" /\ out = NoOut)

\* ---- C30
\* the value the lone encoder decodes at an index, <<-1>> when the lookup raises
Decoded(encoded, j) ==
    IF getitem_error(encoded, j) = "none" THEN shape_getitem(encoded, j) ELSE <<-1>>

\* what a __setitem__ call that returns does to the decoded sequence
C30_Step ==
    (call'.name = "setitem" /\ err' = "none") =>
        LET g == call'.indices[1]
            item == call'.samples[1]
            n == num_samples(encoder_obj)
        IN  (0 <= g /\ g < n) =>
                /\ num_samples(encoder_obj') = n
                /\ \A j \in 0..(n - 1) :
                      Decoded(encoder_obj', j)
                          = IF j = g THEN item ELSE Decoded(encoder_obj, j)

\* C30: after an encoder __setitem__(g, item) that returns, with
\* 0 <= g < num_samples, the encoder decodes to item at index g and to its
\* previous value at every other index, and num_samples is unchanged.
C30_SetItemIsPointUpdate == [][C30_Step]_vars

\* ---- C29
\* C29: whenever the engine is about to issue a cache operation (get_cachable,
\* insert, maybe_flush), it holds no chunk object that it has obtained and has
\* yet to read or mutate; in append, in extend and in numpy.
C29_NoCacheOpWhileHoldingChunk ==
    pc \in CacheOpSteps \cup ReadCacheOpSteps => held = 0

ResolvesAbsentEncoder ==
    /\ pc \in {"create", "register", "numpy_encoder"}
    /\ ~enc_exists
    /\ err' # "CacheError"

\* C26 as stated: resolving the chunk id encoder when its key is absent raises
\* CorruptedMeta whenever tensor meta length is at least 1, and creates and
\* caches a blank encoder only when the length is 0.
C26_CorruptedMetaWhenNonEmpty ==
    [][ResolvesAbsentEncoder =>
          IF tensor_meta.length >= 1
          THEN err' = "CorruptedMeta" /\ ~enc_exists'
          ELSE enc_exists' /\ err' # "CorruptedMeta"]_vars

\* C26 as amended: resolving the chunk id encoder when its key is absent
\* raises CorruptedMeta, and caches nothing, whenever tensor meta length is
\* greater than 1; when the length is 0 or 1 it creates and caches a blank
\* encoder, which then holds at most the row of a chunk id generated in the
\* same step.
C26_CorruptedMetaAboveOne ==
    /\ [](~enc_exists => chunk_id_encoder = <<>>)
    /\ [][ResolvesAbsentEncoder =>
             IF tensor_meta.length > 1
             THEN /\ err' = "CorruptedMeta"
                  /\ ~enc_exists'
                  /\ chunk_id_encoder' = chunk_id_encoder
             ELSE /\ enc_exists'
                  /\ err' # "CorruptedMeta"
                  /\ Len(chunk_id_encoder') = IF pc = "create" THEN 1 ELSE 0]_vars

\* a call has ended in CorruptedMeta: the key is absent and two appends have
\* each counted their sample in tensor meta
C26_Witness ==
    /\ pc = "idle"
    /\ err = "CorruptedMeta"
    /\ ~enc_exists
    /\ tensor_meta.length >= 2

\* the running engine finds its tensor as it left it when its turn comes, and
\* no step of an engine's own turn touches the shared cache or the suspended
\* engine
C27_Step ==
    IF key' # key
    THEN /\ tensor_meta' = rest.tensor_meta
         /\ enc_exists' = rest.enc_exists
         /\ chunk_id_encoder' = rest.chunk_id_encoder
         /\ chunks' = rest.chunks
         /\ \A k \in DOMAIN cache : k[1] = key' => cache'[k] = cache[k]
    ELSE cache' = cache /\ rest' = rest

\* C27: two engines with different tensor keys share one cache and their
\* appends interleave at cache operations; each tensor keeps the meta, chunk
\* id encoder and chunks that its own appends alone give it: an engine that
\* resumes finds what it left, the entries of the other tensor are untouched
\* by its steps, and between calls every sample it appended reads back.
C27_SharedCacheKeepsTensorsApart ==
    /\ [][C27_Step]_vars
    /\ [](pc = "idle" /\ err = "none" =>
            /\ engine_num_samples = Len(appended)
            /\ tensor_meta.length = Len(appended)
            /\ \A g \in 0..(Len(appended) - 1) : ReadsBack(g, appended[g + 1]))

\* the running engine has appended two samples and is between calls, the
\* other engine is suspended at a cache operation inside an append, and a
\* chunk id is in use in both tensors with different chunks under it
C27_Witness ==
    /\ key # rest.key
    /\ pc = "idle"
    /\ Len(appended) = 2
    /\ tensor_meta.length = 2
    /\ rest.pc \in CacheOpSteps
    /\ \E id \in DOMAIN chunks \cap DOMAIN rest.chunks :
            chunks[id] # rest.chunks[id]

\* ---- C31
\* what a __setitem__ call that removes rows does to the table
C31_Step ==
    (call'.name = "setitem" /\ err' = "none"
        /\ Len(encoder_obj') < Len(encoder_obj)) =>
        LET g == call'.indices[1]
            item == call'.samples[1]
            r == setitem_row(encoder_obj, g)
        IN  /\ num_samples_at(encoder_obj, r) = 1
            /\ can_combine_above("shape", encoder_obj, item, r)
            /\ can_combine_below("shape", encoder_obj, item, r)
            /\ Len(encoder_obj') = Len(encoder_obj) - 2
            /\ encoder_obj'[r - 1].val = item
            /\ num_samples_at(encoder_obj', r - 1)
                  = num_samples_at(encoder_obj, r - 1)
                      + num_samples_at(encoder_obj, r)
                      + num_samples_at(encoder_obj, r + 1)

\* C31: __setitem__(g, item) removes rows only when the row holding g holds
\* exactly one sample and the item combines with the row above and with the
\* row below; the row count then drops by exactly 2 and the merged run covers
\* the indices of the three former rows.
C31_SqueezeOnlySingleSampleRow == [][C31_Step]_vars

\* ---- C32
\* what __setitem__ does when the item fits neither the row of g, which holds
\* several samples, nor a row next to it
C32_Step ==
    call'.name = "setitem" =>
        LET g == call'.indices[1]
            item == call'.samples[1]
            r == setitem_row(encoder_obj, g)
            first == IF r = 1 THEN 0 ELSE encoder_obj[r - 1].last + 1
        IN  (/\ LastColumnSorted(encoder_obj)
             /\ r <= Len(encoder_obj)
             /\ num_samples_at(encoder_obj, r) > 1
             /\ ~combine_condition("shape", encoder_obj, item, r)
             /\ ~can_combine_above("shape", encoder_obj, item, r)
             /\ ~can_combine_below("shape", encoder_obj, item, r)) =>
                /\ err' = "none"
                /\ Len(encoder_obj') =
                      Len(encoder_obj)
                        + (IF g = first \/ g = encoder_obj[r].last THEN 1 ELSE 2)

\* C32: when g lies in a row holding more than one sample and the item
\* combines with neither that row nor a neighbouring row, __setitem__(g, item)
\* splits the row: the row count grows by 1 when g is the first or the last
\* index of the row and by 2 when g is interior.
C32_SetItemSplitsRow == [][C32_Step]_vars

\* ------------------------------------------ serializing input (hub/core/io.py)
\* A batch is [kind, items]: kind "sequence" for a list and "ndarray" for an
\* array, the items being samples as above.  The items offered are arrays of
\* the tensor's dtype, which intelligent_cast leaves as they are, and one
\* Sample object of another dtype.  A generator is the sequence of what it
\* yields, each a record [error, buffer, shape]; a record whose error is not
\* "none" stands for the exception the generator raises at that point.
BatchKinds == {"sequence", "ndarray"}

\* meta.sample_compression as serialize_input_samples may find it
Compressions == {"None", "uncompressed"}

\* meta.dtype as serialize_input_samples may find it
MetaDTypes == {"None", "uint8"}

\* _serialize_input_sample and _get_shape for one item
serialize_input_sample(sample, expected_dtype) ==
    IF sample.dtype # expected_dtype
    THEN [error |-> "NotImplementedError", buffer |-> <<>>, shape |-> <<>>]
    ELSE [error |-> "none", buffer |-> sample.buffer, shape |-> sample.shape]

\* the yields of a generator up to and including the first that raises
RECURSIVE UpToFirstError(_)
UpToFirstError(yields) ==
    IF yields = <<>> THEN <<>>
    ELSE IF Head(yields).error # "none" THEN <<Head(yields)>>
    ELSE <<Head(yields)>> \o UpToFirstError(Tail(yields))

\* _make_generator
make_generator(samples, sample_compression, expected_dtype) ==
    IF samples.kind = "ndarray" /\ sample_compression # "None"
    THEN << [error |-> "NotImplementedError", buffer |-> <<>>, shape |-> <<>>] >>
    ELSE UpToFirstError([i \in 1..Len(samples.items) |->
                            serialize_input_sample(samples.items[i], expected_dtype)])

\* a plausible slip: expected_dimensionality is taken anew from every sample
RECURSIVE check_input_samples_each_its_own(_, _, _)
check_input_samples_each_its_own(buffer_generator, min_size, expected_dimensionality) ==
    IF buffer_generator = <<>> THEN "none"
    ELSE LET y == Head(buffer_generator)
         IN  IF y.error # "none" THEN y.error
             ELSE IF Len(y.buffer) > min_size THEN "NotImplementedError"
             ELSE check_input_samples_each_its_own(Tail(buffer_generator),
                                                   min_size, Len(y.shape))

\* _check_input_samples_are_valid: the exception it ends in, "none" if it
\* returns; expected_dimensionality is -1 while it is None
RECURSIVE check_input_samples_are_valid(_, _, _)
check_input_samples_are_valid(buffer_generator, min_size, expected_dimensionality) ==
    IF buffer_generator = <<>> THEN "none"
    ELSE LET y == Head(buffer_generator)
             expected == IF expected_dimensionality = -1
                         THEN Len(y.shape) ELSE expected_dimensionality
         IN  IF y.error # "none" THEN y.error
             ELSE IF Len(y.buffer) > min_size THEN "NotImplementedError"
             ELSE IF Len(y.shape) # expected THEN "TensorInvalidSampleShapeError"
             ELSE check_input_samples_are_valid(Tail(buffer_generator),
                                                min_size, expected)

\* serialize_input_samples: the exception it ends in, "none" if it returns
serialize_input_samples_error(samples, meta, min_size) ==
    IF meta.dtype = "None" THEN "ValueError"
    ELSE check_input_samples_are_valid(
             make_generator(samples, meta.sample_compression, meta.dtype),
             min_size, -1)

\* serialize_input_samples(samples, meta, min_chunk_size) is called between
\* two calls of the engine, with the tensor's meta or a meta whose dtype or
\* compression is not set
SerializeInputSamples ==
    /\ pc = "idle"
    /\ \E kind \in BatchKinds, items \in Batches,
          dtype \in MetaDTypes, compression \in Compressions :
        LET samples == [kind |-> kind, items |-> items]
            meta == [tensor_meta EXCEPT !.dtype = dtype,
                                        !.sample_compression = compression]
            e == serialize_input_samples_error(samples, meta, min_chunk_size)
        IN  /\ call' = [Called("serialize_input_samples", items, <<>>, FALSE)
                          EXCEPT !.tensor_meta = meta,
                                 !.aslist = (kind = "sequence")]
            /\ err' = e
            /\ out' = IF e = "none"
                      THEN [kind |-> "generator",
                            samples |-> make_generator(samples, compression, dtype)]
                      ELSE NoOut
    /\ UNCHANGED <<max_chunk_size, shared, held, apart, tensor_meta, enc_exists,
                   chunk_id_encoder, chunks, pc, mode, queue, new_chunk,
                   appended, failures>>

\* an append of a sample of rank 1 or 2 gives the tensor its rank
IoAppend ==
    /\ pc = "idle"
    /\ tensor_meta.length < 1
    /\ \E smp \in { i \in GoodDTypeSamples :
                      i.shape \in {<<1>>, <<1, 1>>} /\ i.buffer[1] = 1 } :
           CallAppend(smp)

NextIo ==
    \/ IoAppend
    \/ AppendStep
    \/ SerializeInputSamples

\* serialize_input_samples used next to an engine
SpecIo == Init /\ [][NextIo]_vars

\* ---- C33
\* the batch of the serialize_input_samples call last made
C33_Items == call.samples

\* no sample of the batch is larger than min_chunk_size bytes
C33_SizesFit ==
    \A i \in 1..Len(C33_Items) : Len(C33_Items[i].buffer) <= min_chunk_size

\* the generator can serialize the batch: the meta has a dtype, every sample
\* has it, and an array does not come with a compression
C33_Serializable ==
    /\ call.tensor_meta.dtype # "None"
    /\ call.aslist \/ call.tensor_meta.sample_compression = "None"
    /\ \A i \in 1..Len(C33_Items) : C33_Items[i].dtype = call.tensor_meta.dtype

\* C33 as stated: serialize_input_samples hands its buffer generator back only
\* if every sample of the batch is at most min_chunk_size bytes and has the
\* rank of the tensor; otherwise it raises and hands out no buffer.
C33_GeneratorOnlyForTensorRank ==
    call.name = "serialize_input_samples" =>
        LET valid ==
              /\ C33_SizesFit
              /\ tensor_meta.length > 0 =>
                    \A i \in 1..Len(C33_Items) :
                        Len(C33_Items[i].shape) = Len(tensor_meta.min_shape)
        IN  /\ out.kind = "generator" => valid
            /\ ~valid => (err # "none" /\ out = NoOut)

\* C33 as amended: serialize_input_samples hands its buffer generator back
\* only if every sample of the batch is at most min_chunk_size bytes and has
\* the rank of the first sample of the batch (the rank of the tensor is not
\* looked at); otherwise it raises, NotImplementedError for a size and
\* TensorInvalidSampleShapeError for a rank, and hands out no buffer.  A batch
\* it can serialize and that passes both tests gets its generator, which
\* yields the buffer and the shape of every sample in order.
C33_GeneratorOnlyForUniformRank ==
    call.name = "serialize_input_samples" =>
        LET uniform ==
              \A i \in 1..Len(C33_Items) :
                  Len(C33_Items[i].shape) = Len(C33_Items[1].shape)
        IN  /\ err # "none" => out = NoOut
            /\ err = "none" =>
                  /\ C33_SizesFit /\ uniform /\ C33_Serializable
                  /\ out.kind = "generator"
                  /\ out.samples =
                        [i \in 1..Len(C33_Items) |->
                            [error |-> "none", buffer |-> C33_Items[i].buffer,
                             shape |-> C33_Items[i].shape]]
            /\ (C33_Serializable /\ C33_SizesFit /\ uniform) => err = "none"
            /\ (C33_Serializable /\ ~C33_SizesFit /\ uniform)
                  => err = "NotImplementedError"
            /\ (C33_Serializable /\ C33_SizesFit /\ ~uniform)
                  => err = "TensorInvalidSampleShapeError"
            /\ err = "TensorInvalidSampleShapeError" => ~uniform

\* a generator was handed back for a batch of two samples of one rank, which
\* is not the rank of the sample the tensor holds
C33_Witness ==
    /\ call.name = "serialize_input_samples"
    /\ err = "none"
    /\ out.kind = "generator"
    /\ Len(out.samples) = 2
    /\ tensor_meta.length = 1
    /\ Len(C33_Items[1].shape) # Len(tensor_meta.min_shape)
    /\ Len(C33_Items[2].shape) = Len(C33_Items[1].shape)

\* ---- C34
\* an append is running that found tensor meta length 0 and no chunk id
\* encoder in the cache
C34_FirstAppendRunning ==
    /\ pc # "idle"
    /\ mode = "append"
    /\ call.name = "append"
    /\ call.tensor_meta.length = 0
    /\ ~call.enc_exists

\* the sample of the running append is one the engine accepts
C34_Accepted ==
    /\ Len(call.samples[1].buffer) <= min_chunk_size
    /\ call.samples[1].dtype = call.tensor_meta.dtype

\* what the steps of such an append do
C34_Step ==
    C34_FirstAppendRunning =>
        /\ err' # "CorruptedMeta"
        /\ ResolvesAbsentEncoder => tensor_meta.length = 1
        /\ pc' = "idle" =>
              /\ C34_Accepted => err' = "none"
              /\ err' = "none" =>
                    /\ enc_exists'
                    /\ num_samples(chunk_id_encoder') = 1
                    /\ tensor_meta'.length = 1
                    /\ num_chunks(chunk_id_encoder') = 1
                    /\ Cardinality(DOMAIN chunks') = 1
                    /\ appended' = <<call.samples[1]>>

\* C34: the first append to a tensor with meta length 0 and no chunk id
\* encoder in the cache completes without CorruptedMeta, although meta length
\* is already 1 when the encoder is first resolved; afterwards the encoder
\* exists with num_samples = 1 = tensor meta length and exactly one chunk
\* exists.
C34_FirstAppendCompletes == [][C34_Step]_vars

\* the first append has returned: the tensor that was empty holds one sample
\* in one chunk
C34_Witness ==
    /\ pc = "idle"
    /\ err = "none"
    /\ call.name = "append"
    /\ call.tensor_meta.length = 0
    /\ ~call.enc_exists
    /\ enc_exists
    /\ num_samples(chunk_id_encoder) = 1
    /\ tensor_meta.length = 1
    /\ Cardinality(DOMAIN chunks) = 1

\* ---- C35
\* the keys of the cache under the tensor: the key of the tensor meta, the key
\* of the chunk id encoder if it is there, and the keys of the chunks
C35_CacheKeys ==
    {get_tensor_meta_key(key)}
        \cup (IF enc_exists THEN {get_chunk_id_encoder_key(key)} ELSE {})
        \cup { engine_chunk_key(key, id) : id \in DOMAIN chunks }

\* what a step of numpy does to the tensor
C35_Step ==
    pc \in ReadCacheOpSteps =>
        /\ C35_CacheKeys' = C35_CacheKeys
        /\ tensor_meta' = tensor_meta
        /\ chunk_id_encoder' = chunk_id_encoder
        /\ chunks' = chunks
        /\ pc = "numpy_chunk" =>
              (0 <= Head(queue) /\ Head(queue) < num_samples(chunk_id_encoder))

\* C35: numpy(index, aslist) is read-only: in every reachable tensor state,
\* including an empty tensor whose chunk id encoder does not exist yet, a read
\* leaves the set of cache keys and the contents of tensor meta, chunk id
\* encoder and all chunks unchanged, and reads only global indices below the
\* chunk id encoder's num_samples.
C35_NumpyIsReadOnly == [][C35_Step]_vars

====
